---- MODULE Spec2Model ----
(***************************************************************************)
(* Model of the file-ingestion backend: the DynamoDB metadata repository   *)
(* (DynamoFileRepository), the presigned upload URL service                *)
(* (PresignedUrlService.generateUploadUrl), the S3 event handler that      *)
(* moves a record from PENDING_UPLOAD to UPLOADED, the expiry sweep        *)
(* (deleteExpiredPendingFiles) and paginated listing (listFiles).          *)
(*                                                                         *)
(* Strings are sequences of one-character strings, so that split,          *)
(* lastIndexOf, toLowerCase, URL decoding and base64 are computed the way  *)
(* the code computes them.  Timestamps are epoch milliseconds: the ISO     *)
(* strings the code stores all have the same fixed-width format, for which *)
(* string order and numeric order coincide.                                *)
(*                                                                         *)
(* Every request to DynamoDB or S3 is one atomic step; the synchronous     *)
(* code that follows the response, up to the next request, belongs to the  *)
(* same step.  Index reads are modelled as consistent with the table.      *)
(***************************************************************************)
EXTENDS Integers, Sequences, FiniteSets, TLC

(***************************************************************************)
(* Bounds of the model.                                                    *)
(***************************************************************************)
MaxClock == 1
MsPerTick == 150500
MaxIssues == 2
MaxBatch == 2
MaxInvocations == 2
MaxListed == 3
MaxSwept == 3
MaxLimit == 2
MaxDays == 3

(***************************************************************************)
(* Characters: printable ASCII, code 32..126, in code order (code 96, the   *)
(* grave accent, is spelled GRAVE).                                        *)
(***************************************************************************)
AsciiPrintable ==
  << " ", "!", "\"", "#", "$", "%", "&", "'", "(", ")", "*", "+", ",", "-", ".", "/",
     "0", "1", "2", "3", "4", "5", "6", "7", "8", "9", ":", ";", "<", "=", ">", "?",
     "@", "A", "B", "C", "D", "E", "F", "G", "H", "I", "J", "K", "L", "M", "N", "O",
     "P", "Q", "R", "S", "T", "U", "V", "W", "X", "Y", "Z", "[", "\\", "]", "^", "_",
     "GRAVE", "a", "b", "c", "d", "e", "f", "g", "h", "i", "j", "k", "l", "m", "n", "o",
     "p", "q", "r", "s", "t", "u", "v", "w", "x", "y", "z", "{", "|", "}", "~" >>

CharCodes ==
  [c \in { AsciiPrintable[i] : i \in 1..Len(AsciiPrintable) } |->
     31 + (CHOOSE i \in 1..Len(AsciiPrintable) : AsciiPrintable[i] = c)]

CharCode(c) == CharCodes[c]

CodeChar(n) == AsciiPrintable[n - 31]

\* String.prototype.toLowerCase on one character
LowerChar(c) ==
  LET n == CharCode(c) IN IF n >= 65 /\ n <= 90 THEN CodeChar(n + 32) ELSE c

ToLowerCase(s) == [i \in 1..Len(s) |-> LowerChar(s[i])]

\* s.substring(from) / s.substring(from, to) with JavaScript's 0-based indexes
Substring(s, from, to) == SubSeq(s, from + 1, to)

StartsWith(s, p) == Len(p) <= Len(s) /\ SubSeq(s, 1, Len(p)) = p

EndsWith(s, p) == Len(p) <= Len(s) /\ SubSeq(s, Len(s) - Len(p) + 1, Len(s)) = p

Includes(s, p) == \E i \in 0..(Len(s) - Len(p)) : SubSeq(s, i + 1, i + Len(p)) = p

\* s.lastIndexOf(c): 0-based index of the last occurrence, -1 when there is none
LastIndexOf(s, c) ==
  IF \E i \in 1..Len(s) : s[i] = c
  THEN (CHOOSE i \in 1..Len(s) : s[i] = c /\ \A j \in (i + 1)..Len(s) : s[j] # c) - 1
  ELSE -1

RECURSIVE Split(_, _)
\* s.split(c)
Split(s, c) ==
  IF \A i \in 1..Len(s) : s[i] # c
  THEN << s >>
  ELSE LET k == CHOOSE i \in 1..Len(s) : s[i] = c /\ \A j \in 1..(i - 1) : s[j] # c
       IN << SubSeq(s, 1, k - 1) >> \o Split(SubSeq(s, k + 1, Len(s)), c)

RECURSIVE Join(_, _)
\* parts.join(sep)
Join(parts, sep) ==
  IF Len(parts) = 0 THEN << >>
  ELSE IF Len(parts) = 1 THEN parts[1]
  ELSE parts[1] \o sep \o Join(Tail(parts), sep)

\* a < b for strings (code-unit order, as DynamoDB orders string keys)
LexLess(a, b) ==
  \E i \in 1..(Len(b)) :
     /\ \A j \in 1..(i - 1) : j <= Len(a) /\ a[j] = b[j]
     /\ i - 1 <= Len(a)
     /\ (i > Len(a) \/ CharCode(a[i]) < CharCode(b[i]))


(***************************************************************************)
(* An attribute or field that is undefined is left out of its record.      *)
(* Values for the other cases of "nothing": a null string, the URIError    *)
(* thrown by decodeURIComponent and an undefined cursor (none of them is a *)
(* sequence of characters), a null file, a missing DynamoDB item and an    *)
(* undefined key.                                                          *)
(***************************************************************************)
Null == << "null" >>
URIError == << "URIError" >>
NoCursor == << "undefined" >>
NullFile == [null |-> TRUE]
NoItem == [noItem |-> TRUE]
NoKey == [undefined |-> TRUE]
Has(r, a) == a \in DOMAIN r

(***************************************************************************)
(* FILE_CONSTANTS and the service default.                                 *)
(***************************************************************************)
MAX_PDF_SIZE_BYTES == 10 * 1024 * 1024
MAX_IMAGE_SIZE_BYTES == 5 * 1024 * 1024
ALLOWED_PDF_TYPES == << << "a", "p", "p", "l", "i", "c", "a", "t", "i", "o", "n", "/", "p", "d", "f" >> >>
ALLOWED_IMAGE_TYPES ==
  << << "i", "m", "a", "g", "e", "/", "j", "p", "e", "g" >>,
     << "i", "m", "a", "g", "e", "/", "j", "p", "g" >>,
     << "i", "m", "a", "g", "e", "/", "p", "n", "g" >>,
     << "i", "m", "a", "g", "e", "/", "g", "i", "f" >>,
     << "i", "m", "a", "g", "e", "/", "w", "e", "b", "p" >> >>
defaultExpirationSeconds == 300
TtlBufferMs == 48 * 60 * 60 * 1000

(***************************************************************************)
(* FileTypeDetector.detect                                                 *)
(***************************************************************************)
ImageExtensions ==
  { << ".", "j", "p", "g" >>, << ".", "j", "p", "e", "g" >>, << ".", "p", "n", "g" >>, << ".", "g", "i", "f" >>, << ".", "w", "e", "b", "p" >>, << ".", "s", "v", "g" >> }

\* a faulty variant: the content type and the file name are compared as given
detect_CaseSensitive(contentType, fileName) ==
  IF Includes(contentType, << "p", "d", "f" >>) \/ EndsWith(fileName, << ".", "p", "d", "f" >>)
  THEN "pdf"
  ELSE IF StartsWith(contentType, << "i", "m", "a", "g", "e", "/" >>)
          \/ \E e \in ImageExtensions : EndsWith(fileName, e)
       THEN "image"
       ELSE "unknown"

detect(contentType, fileName) ==
  LET lowerContentType == ToLowerCase(contentType)
      lowerFileName == ToLowerCase(fileName)
  IN IF Includes(lowerContentType, << "p", "d", "f" >>) \/ EndsWith(lowerFileName, << ".", "p", "d", "f" >>)
     THEN "pdf"
     ELSE IF StartsWith(lowerContentType, << "i", "m", "a", "g", "e", "/" >>)
             \/ \E e \in ImageExtensions : EndsWith(lowerFileName, e)
          THEN "image"
          ELSE "unknown"

(***************************************************************************)
(* generateS3Key(fileType, userId, fileId, fileName):                      *)
(* {pdf|images}/{userId}/{yyyy}/{mm}/{dd}/{fileId}{extension}.  The model  *)
(* runs within one calendar day, so the date segments are fixed.           *)
(***************************************************************************)
DateSegments == << << "2", "0", "2", "6" >>, << "1", "1" >>, << "0", "1" >> >>

generateS3Key(fileType, userId, fileId, fileName) ==
  LET typePrefix == IF fileType = "pdf" THEN << "p", "d", "f" >> ELSE << "i", "m", "a", "g", "e", "s" >>
      defaultExtension == IF fileType = "pdf" THEN << ".", "p", "d", "f" >> ELSE << ".", "j", "p", "g" >>
      extension == IF Includes(fileName, << "." >>)
                   THEN Substring(fileName, LastIndexOf(fileName, "."), Len(fileName))
                   ELSE defaultExtension
  IN Join(<< typePrefix, userId, DateSegments[1], DateSegments[2], DateSegments[3],
             fileId \o extension >>, << "/" >>)

(***************************************************************************)
(* The S3 event handler's view of an object key.                           *)
(***************************************************************************)
HexDigits == << "0", "1", "2", "3", "4", "5", "6", "7", "8", "9",
                "A", "B", "C", "D", "E", "F" >>

IsHex(c) == \E i \in 1..16 : HexDigits[i] = c \/ LowerChar(HexDigits[i]) = c

HexVal(c) ==
  LET u == IF CharCode(c) >= 97 THEN CodeChar(CharCode(c) - 32) ELSE c
  IN (CHOOSE i \in 1..16 : HexDigits[i] = u) - 1

\* key.replace(/\+/g, " ")
ReplacePlus(s) == [i \in 1..Len(s) |-> IF s[i] = "+" THEN " " ELSE s[i]]

RECURSIVE decodeURIComponent(_)
\* decodeURIComponent: %XX escapes of printable ASCII are decoded; a "%" that
\* is not followed by two hex digits, or an escape of a byte that does not
\* form a UTF-8 character (a control byte is kept out of the inputs; a lone
\* byte >= 0x80 is malformed), throws URIError.
decodeURIComponent(s) ==
  IF Len(s) = 0 THEN << >>
  ELSE IF s[1] # "%"
       THEN LET rest == decodeURIComponent(Tail(s))
            IN IF rest = URIError THEN URIError ELSE << s[1] >> \o rest
       ELSE IF Len(s) < 3 \/ ~IsHex(s[2]) \/ ~IsHex(s[3])
            THEN URIError
            ELSE LET code == 16 * HexVal(s[2]) + HexVal(s[3])
                     rest == decodeURIComponent(SubSeq(s, 4, Len(s)))
                 IN IF code < 32 \/ code > 126 \/ rest = URIError
                    THEN URIError
                    ELSE << CodeChar(code) >> \o rest

extractFileIdFromKey(key) ==
  LET parts == Split(key, "/")
  IN IF Len(parts) < 6 THEN Null
     ELSE LET fileName == parts[Len(parts)]
              lastDotIndex == LastIndexOf(fileName, ".")
          IN IF lastDotIndex = -1 THEN Null
             ELSE Substring(fileName, 0, lastDotIndex)

\* a faulty variant: the type prefix is not validated
extractUserIdFromKey_AnyPrefix(key) ==
  LET parts == Split(key, "/")
  IN IF Len(parts) < 6 THEN Null ELSE parts[2]

extractUserIdFromKey(key) ==
  LET parts == Split(key, "/")
  IN IF Len(parts) < 6 THEN Null
     ELSE IF parts[1] # << "p", "d", "f" >> /\ parts[1] # << "i", "m", "a", "g", "e", "s" >> THEN Null
     ELSE parts[2]

\* !value for a string-or-null value: null and the empty string are falsy
Falsy(v) == v = Null \/ v = << >>


(***************************************************************************)
(* The inputs of the model.                                                *)
(***************************************************************************)
Owners == { << "u", "1" >>, << "u", "2" >> }
FileIds(n) == { << "f", CodeChar(48 + i) >> : i \in 1..n }
bucketName == << "b", "u", "c", "k", "e", "t" >>

\* IUploadRequest: fileName, contentType, size
Requests ==
  { [fileName |-> << "d", "o", "c", ".", "p", "d", "f" >>, contentType |-> << "a", "p", "p", "l", "i", "c", "a", "t", "i", "o", "n", "/", "p", "d", "f" >>, size |-> 1048576],
    [fileName |-> << "p", "i", "c", ".", "p", "n", "g" >>, contentType |-> << "i", "m", "a", "g", "e", "/", "p", "n", "g" >>, size |-> MAX_IMAGE_SIZE_BYTES],
    [fileName |-> << "p", "i", "c", ".", "p", "n", "g" >>, contentType |-> << "i", "m", "a", "g", "e", "/", "p", "n", "g" >>, size |-> MAX_IMAGE_SIZE_BYTES + 1],
    [fileName |-> << "d", "o", "c", ".", "p", "d", "f" >>, contentType |-> << "a", "p", "p", "l", "i", "c", "a", "t", "i", "o", "n", "/", "x", "-", "p", "d", "f" >>, size |-> 1048576],
    [fileName |-> << "n", "o", "t", "e", "s", ".", "t", "x", "t" >>, contentType |-> << "t", "e", "x", "t", "/", "p", "l", "a", "i", "n" >>, size |-> 1048576] }

\* requests whose content type and file name need not agree, with sizes at
\* and just above the two ceilings
MixedRequests ==
  { [fileName |-> n, contentType |-> c, size |-> z] :
      n \in { << "d", "o", "c", ".", "p", "d", "f" >>, << "p", "i", "c", ".", "p", "n", "g" >>, << "s", "c", "a", "n" >> },
      c \in { << "a", "p", "p", "l", "i", "c", "a", "t", "i", "o", "n", "/", "p", "d", "f" >>, << "i", "m", "a", "g", "e", "/", "p", "n", "g" >>, << "i", "m", "a", "g", "e", "/", "j", "p", "e", "g" >>, << "i", "m", "a", "g", "e", "/", "w", "e", "b", "p" >> },
      z \in { MAX_IMAGE_SIZE_BYTES, MAX_IMAGE_SIZE_BYTES + 1,
              MAX_PDF_SIZE_BYTES, MAX_PDF_SIZE_BYTES + 1 } }

Now(c) == c * MsPerTick

(***************************************************************************)
(* The FilesTable: a function from primary key << PK, SK >> to item.  An   *)
(* item is a record of the attributes it has.                              *)
(***************************************************************************)
PKOf(userId) == << "U", "S", "E", "R", "#" >> \o userId
SKOf(fileId) == << "F", "I", "L", "E", "#" >> \o fileId

EmptyItem(pk, sk) == [PK |-> pk, SK |-> sk]

\* a faulty variant: a PutCommand with the condition attribute_not_exists(PK)
\* does not write when the key is taken
PutItem_IfAbsent(t, item) ==
  IF << item.PK, item.SK >> \in DOMAIN t THEN t
  ELSE [k \in DOMAIN t \cup { << item.PK, item.SK >> } |->
          IF k = << item.PK, item.SK >> THEN item ELSE t[k]]

\* PutCommand: the item replaces whatever is stored under its key
PutItem(t, item) ==
  [k \in DOMAIN t \cup { << item.PK, item.SK >> } |->
     IF k = << item.PK, item.SK >> THEN item ELSE t[k]]

\* GetCommand
GetItem(t, pk, sk) == IF << pk, sk >> \in DOMAIN t THEN t[<< pk, sk >>] ELSE NoItem

\* DeleteCommand: unconditional; succeeds whether or not the item exists
DeleteItem(t, pk, sk) == [k \in DOMAIN t \ { << pk, sk >> } |-> t[k]]

\* UpdateCommand with a SET expression: the attributes in sets are written to
\* the item under the key; an item that does not exist is created with the
\* key attributes and the SET attributes only.
UpdateItem(t, pk, sk, sets) ==
  LET old == IF << pk, sk >> \in DOMAIN t THEN t[<< pk, sk >>] ELSE EmptyItem(pk, sk)
      new == [a \in DOMAIN old \cup DOMAIN sets |->
                IF a \in DOMAIN sets THEN sets[a] ELSE old[a]]
  IN [k \in DOMAIN t \cup { << pk, sk >> } |-> IF k = << pk, sk >> THEN new ELSE t[k]]

Items(t) == { t[k] : k \in DOMAIN t }

FileFields ==
  { "fileId", "userId", "fileName", "mimeType", "sizeBytes", "status", "s3Bucket",
    "s3Key", "createdAt", "updatedAt", "uploadedAt", "expiresAt", "ttl" }

\* the IFile a repository read maps an item to: a field is undefined when
\* the item does not have the attribute
ToFile(item) == [a \in DOMAIN item \cap FileFields |-> item[a]]

\* a record without the fields in names
Without(r, names) == [a \in DOMAIN r \ names |-> r[a]]

(***************************************************************************)
(* DynamoFileRepository                                                    *)
(***************************************************************************)
\* createFile(file), at time now
\* a faulty variant: ttl is set whenever expiresAt is given
createFileItem_TtlAnyStatus(file, now) ==
  LET item == [PK |-> PKOf(file.userId), SK |-> SKOf(file.fileId),
               fileId |-> file.fileId, userId |-> file.userId,
               fileName |-> file.fileName, mimeType |-> file.mimeType,
               sizeBytes |-> file.sizeBytes, status |-> file.status,
               s3Bucket |-> file.s3Bucket, s3Key |-> file.s3Key,
               createdAt |-> IF Has(file, "createdAt") THEN file.createdAt ELSE now,
               updatedAt |-> IF Has(file, "updatedAt") THEN file.updatedAt ELSE now,
               uploadedAt |-> IF Has(file, "uploadedAt") THEN file.uploadedAt ELSE 0,
               expiresAt |-> IF Has(file, "expiresAt") THEN file.expiresAt ELSE 0,
               ttl |-> IF Has(file, "expiresAt")
                       THEN (file.expiresAt + TtlBufferMs) \div 1000 ELSE 0]
  IN Without(item, (IF Has(file, "uploadedAt") THEN { } ELSE { "uploadedAt" })
                   \cup (IF Has(file, "expiresAt") THEN { } ELSE { "expiresAt", "ttl" }))

createFileItem(file, now) ==
  LET hasTtl == file.status = "PENDING_UPLOAD" /\ Has(file, "expiresAt")
      ttl == (file.expiresAt + TtlBufferMs) \div 1000
      item == [PK |-> PKOf(file.userId), SK |-> SKOf(file.fileId),
               fileId |-> file.fileId, userId |-> file.userId,
               fileName |-> file.fileName, mimeType |-> file.mimeType,
               sizeBytes |-> file.sizeBytes, status |-> file.status,
               s3Bucket |-> file.s3Bucket, s3Key |-> file.s3Key,
               createdAt |-> IF Has(file, "createdAt") THEN file.createdAt ELSE now,
               updatedAt |-> IF Has(file, "updatedAt") THEN file.updatedAt ELSE now,
               uploadedAt |-> IF Has(file, "uploadedAt") THEN file.uploadedAt ELSE 0,
               expiresAt |-> IF Has(file, "expiresAt") THEN file.expiresAt ELSE 0,
               ttl |-> IF hasTtl THEN ttl ELSE 0]
  IN Without(item, (IF Has(file, "uploadedAt") THEN { } ELSE { "uploadedAt" })
                   \cup (IF Has(file, "expiresAt") THEN { } ELSE { "expiresAt" })
                   \cup (IF hasTtl /\ ttl # 0 THEN { } ELSE { "ttl" }))

createFile(t, file, now) == PutItem(t, createFileItem(file, now))

UpdatableFields ==
  { "status", "uploadedAt", "fileName", "mimeType", "sizeBytes", "s3Bucket", "s3Key" }

\* a faulty variant: every supplied field is written
updateFileSets_EverySuppliedField(updates, now) ==
  [a \in (DOMAIN updates \cup { "updatedAt" }) |->
     IF a = "updatedAt" THEN now ELSE updates[a]]

\* a faulty variant: the SET expression leaves uploadedAt out
updateFileSets_NoUploadedAt(updates, now) ==
  [a \in ((DOMAIN updates \cap (UpdatableFields \ { "uploadedAt" })) \cup { "updatedAt" }) |->
     IF a = "updatedAt" THEN now ELSE updates[a]]

\* the SET expression updateFile builds from updates, at time now
updateFileSets(updates, now) ==
  [a \in ((DOMAIN updates \cap UpdatableFields) \cup { "updatedAt" }) |->
     IF a = "updatedAt" THEN now ELSE updates[a]]

updateFile(t, fileId, userId, updates, now) ==
  UpdateItem(t, PKOf(userId), SKOf(fileId), updateFileSets(updates, now))

\* getFile(fileId, userId)
getFile(t, fileId, userId) ==
  LET item == GetItem(t, PKOf(userId), SKOf(fileId))
  IN IF item = NoItem THEN NullFile ELSE ToFile(item)

\* FileIdIndex holds the items that have a fileId attribute
FileIdIndex(t, fileId) == { i \in Items(t) : Has(i, "fileId") /\ i.fileId = fileId }

\* getFileById(fileId): the possible results of the Limit 1 index query
getFileById(t, fileId) ==
  IF FileIdIndex(t, fileId) = { } THEN { NullFile }
  ELSE { ToFile(i) : i \in FileIdIndex(t, fileId) }


(***************************************************************************)
(* PresignedUrlService.generateUploadUrl: the checks before any side       *)
(* effect.  The error texts are represented by their kind.                 *)
(***************************************************************************)
\* a faulty variant: SVG images are allowed too
allowedTypes_WithSvg ==
  ALLOWED_PDF_TYPES \o ALLOWED_IMAGE_TYPES \o << << "i", "m", "a", "g", "e", "/", "s", "v", "g", "+", "x", "m", "l" >> >>

allowedTypes == ALLOWED_PDF_TYPES \o ALLOWED_IMAGE_TYPES

\* a faulty variant: a size equal to the ceiling is rejected
ValidateFileSize_RejectsCeiling(config, request) ==
  IF request.size >= config.maxSizeBytes
  THEN [valid |-> FALSE, error |-> "File size exceeds maximum allowed size"]
  ELSE [valid |-> TRUE]

\* ValidateFileSize.validate(request), config being the validator's
ValidateFileSize(config, request) ==
  IF request.size > config.maxSizeBytes
  THEN [valid |-> FALSE, error |-> "File size exceeds maximum allowed size"]
  ELSE [valid |-> TRUE]

maxSizeBytesOf(fileType) ==
  IF fileType = "pdf" THEN MAX_PDF_SIZE_BYTES ELSE MAX_IMAGE_SIZE_BYTES

\* a faulty variant: the size of the file is not checked
validateUpload_NoSizeCheck(request) ==
  LET fileType == detect(request.contentType, request.fileName)
      normalizedContentType == ToLowerCase(request.contentType)
  IN IF fileType = "unknown"
     THEN [ok |-> FALSE, error |-> "Unsupported file type"]
     ELSE IF ~\E i \in 1..Len(allowedTypes) :
                 ToLowerCase(allowedTypes[i]) = normalizedContentType
     THEN [ok |-> FALSE, error |-> "Unsupported MIME type"]
     ELSE [ok |-> TRUE, fileType |-> fileType, maxSizeBytes |-> maxSizeBytesOf(fileType)]

validateUpload(request) ==
  LET fileType == detect(request.contentType, request.fileName)
      normalizedContentType == ToLowerCase(request.contentType)
  IN IF fileType = "unknown"
     THEN [ok |-> FALSE, error |-> "Unsupported file type"]
     ELSE IF ~\E i \in 1..Len(allowedTypes) :
                 ToLowerCase(allowedTypes[i]) = normalizedContentType
     THEN [ok |-> FALSE, error |-> "Unsupported MIME type"]
     ELSE IF request.size > maxSizeBytesOf(fileType)
     THEN [ok |-> FALSE, error |-> "File size exceeds maximum allowed size"]
     ELSE [ok |-> TRUE, fileType |-> fileType, maxSizeBytes |-> maxSizeBytesOf(fileType)]

\* a faulty variant: the configured lifetime is ignored
expirationSecondsOf_AlwaysDefault(config) == defaultExpirationSeconds

\* this.config.expirationSeconds || this.defaultExpirationSeconds
expirationSecondsOf(config) ==
  IF ~Has(config, "expirationSeconds") \/ config.expirationSeconds = 0
  THEN defaultExpirationSeconds
  ELSE config.expirationSeconds

\* the IFile generateUploadUrl hands to createFile
newFile(userId, fileId, request, fileType, now, expirationSeconds) ==
  [fileId |-> fileId, userId |-> userId, fileName |-> request.fileName,
   mimeType |-> request.contentType, sizeBytes |-> request.size,
   status |-> "PENDING_UPLOAD", s3Bucket |-> bucketName,
   s3Key |-> generateS3Key(fileType, userId, fileId, request.fileName),
   createdAt |-> now, updatedAt |-> now,
   expiresAt |-> now + expirationSeconds * 1000]

(***************************************************************************)
(* State.                                                                  *)
(***************************************************************************)
VARIABLES
  table,          \* the FilesTable
  clock,          \* wall-clock time, in ticks
  iss,            \* the generateUploadUrl call in progress
  resp,           \* the result of the last generateUploadUrl call
  usedIds,        \* the fileIds randomUUID has returned
  createdIds,     \* history: the fileIds for which createFile has succeeded
  signRequested,  \* history: the fileIds for which a signed URL was requested
  signed,         \* the uploads a signed URL exists for: fileId, userId, key
  inv,            \* the invocations of the S3 event handler
  updateLog,      \* history: the UpdateCommands applied to the table
  sw,             \* the deleteExpiredPendingFiles call in progress
  li,             \* the client that pages through listFiles
  api,            \* the last call of a read route of the API, with its answer
  pure            \* the last evaluation of a function without side effect

issVars == << iss, resp, usedIds, createdIds, signRequested, signed >>
invVars == << inv, updateLog >>
vars == << table, clock, iss, resp, usedIds, createdIds, signRequested, signed,
           inv, updateLog, sw, li, api, pure >>

IssIdle == [pc |-> "idle"]
NoEvaluation == [op |-> "none"]
NoResponse == [pending |-> TRUE]

(***************************************************************************)
(* Time passes.                                                            *)
(***************************************************************************)
Tick ==
  /\ clock < MaxClock
  /\ clock' = clock + 1
  /\ UNCHANGED << pure, api, table, issVars, invVars, sw, li >>

(***************************************************************************)
(* generateUploadUrl, up to the response of createFile.  A request that    *)
(* fails a check returns at once.  Otherwise the record is written and the *)
(* signed URL is requested.                                                *)
(***************************************************************************)
\* the check results of the requests of the model, computed once
Validation == [request \in Requests \cup MixedRequests |-> validateUpload(request)]

GenerateUploadUrlCreate(config, request, fileId) ==
  LET v == Validation[request]
      now == Now(clock)
      expirationSeconds == expirationSecondsOf(config)
      file == newFile(config.userId, fileId, request, v.fileType, now,
                      expirationSeconds)
  IN /\ iss.pc = "idle"
     /\ IF ~v.ok
        THEN /\ resp' = [success |-> FALSE, error |-> v.error]
             /\ UNCHANGED << pure, api, table, iss, usedIds, createdIds, signRequested >>
        ELSE /\ fileId \notin usedIds
             /\ usedIds' = usedIds \cup { fileId }
             /\ table' = createFile(table, file, now)
             /\ createdIds' = createdIds \cup { fileId }
             /\ signRequested' = signRequested \cup { fileId }
             /\ iss' = [pc |-> "getSignedUrl", file |-> file,
                        maxSizeBytes |-> v.maxSizeBytes,
                        expirationSeconds |-> expirationSeconds,
                        options |-> [expiresIn |-> expirationSeconds]]
             /\ resp' = NoResponse
     /\ UNCHANGED << pure, api, clock, signed, invVars, sw, li >>

\* getSignedUrl resolves: the call returns the URL
GenerateUploadUrlSigned ==
  /\ iss.pc = "getSignedUrl"
  /\ signed' = signed \cup { [fileId |-> iss.file.fileId, userId |-> iss.file.userId,
                              key |-> iss.file.s3Key] }
  /\ resp' = [success |-> TRUE, fileId |-> iss.file.fileId, uploadUrl |-> iss.file.s3Key,
              expiresIn |-> iss.expirationSeconds, expiresAt |-> iss.file.expiresAt,
              maxSizeBytes |-> iss.maxSizeBytes]
  /\ iss' = IssIdle
  /\ UNCHANGED << pure, api, table, clock, usedIds, createdIds, signRequested, invVars, sw, li >>

\* what a failing createFile or getSignedUrl throws: an Error with a message,
\* or a value that is not an Error
ThrownValues ==
  { [isError |-> TRUE, message |-> << "t", "h", "r", "o", "t", "t", "l", "e", "d" >>],
    [isError |-> TRUE, message |-> << "a", "c", "c", "e", "s", "s", " ", "d", "e", "n", "i", "e", "d" >>],
    [isError |-> FALSE] }

\* a faulty variant: the message of the error is dropped
errorMessageOf_Unknown(thrown) == << "U", "n", "k", "n", "o", "w", "n", " ", "e", "r", "r", "o", "r", " ", "o", "c", "c", "u", "r", "r", "e", "d" >>

\* error instanceof Error ? error.message : "Unknown error occurred"
errorMessageOf(thrown) ==
  IF thrown.isError THEN thrown.message ELSE << "U", "n", "k", "n", "o", "w", "n", " ", "e", "r", "r", "o", "r", " ", "o", "c", "c", "u", "r", "r", "e", "d" >>

\* the result the catch block returns; error is the kind of the text
Caught(thrown) ==
  [success |-> FALSE, error |-> "Failed to generate upload URL",
   text |-> << "F", "a", "i", "l", "e", "d", " ", "t", "o", " ", "g", "e", "n", "e", "r", "a", "t", "e", " ", "u", "p", "l", "o", "a", "d", " ", "U", "R", "L", ":", " " >> \o errorMessageOf(thrown)]

\* a faulty variant: createFile throws, the error is swallowed and the signed
\* URL is requested all the same
GenerateUploadUrlCreateFails_SignsAnyway(config, request, fileId, thrown) ==
  LET v == Validation[request]
      file == newFile(config.userId, fileId, request, v.fileType, Now(clock),
                      expirationSecondsOf(config))
  IN /\ iss.pc = "idle"
     /\ v.ok
     /\ fileId \notin usedIds
     /\ usedIds' = usedIds \cup { fileId }
     /\ signRequested' = signRequested \cup { fileId }
     /\ iss' = [pc |-> "getSignedUrl", file |-> file, maxSizeBytes |-> v.maxSizeBytes,
                expirationSeconds |-> expirationSecondsOf(config)]
     /\ resp' = NoResponse
     /\ UNCHANGED << pure, api, table, clock, createdIds, signed, invVars, sw, li >>

\* createFile throws: the catch block returns the failure
GenerateUploadUrlCreateFails(config, request, fileId, thrown) ==
  /\ iss.pc = "idle"
  /\ Validation[request].ok
  /\ fileId \notin usedIds
  /\ usedIds' = usedIds \cup { fileId }
  /\ resp' = Caught(thrown)
  /\ UNCHANGED << pure, api, table, clock, iss, createdIds, signRequested, signed, invVars, sw, li >>

\* getSignedUrl rejects: the catch block returns the failure
\* a faulty variant: the catch block takes the record back
GenerateUploadUrlSignFails_RollsBack(thrown) ==
  /\ iss.pc = "getSignedUrl"
  /\ resp' = Caught(thrown)
  /\ iss' = IssIdle
  /\ table' = DeleteItem(table, PKOf(iss.file.userId), SKOf(iss.file.fileId))
  /\ UNCHANGED << pure, api, clock, usedIds, createdIds, signRequested, signed, invVars, sw, li >>

GenerateUploadUrlSignFails(thrown) ==
  /\ iss.pc = "getSignedUrl"
  /\ resp' = Caught(thrown)
  /\ iss' = IssIdle
  /\ UNCHANGED << pure, api, table, clock, usedIds, createdIds, signRequested, signed, invVars, sw, li >>

(***************************************************************************)
(* The S3 event notifications a handler invocation can receive.  S3        *)
(* URL-encodes the object key: a space becomes "+", and a character        *)
(* outside the safe set becomes %XX.                                       *)
(***************************************************************************)
SafeKeyChar(c) ==
  LET n == CharCode(c)
  IN \/ (n >= 48 /\ n <= 57) \/ (n >= 65 /\ n <= 90) \/ (n >= 97 /\ n <= 122)
     \/ c \in { "-", "_", ".", "/" }

RECURSIVE S3EncodeKey(_)
S3EncodeKey(s) ==
  IF Len(s) = 0 THEN << >>
  ELSE (IF SafeKeyChar(s[1]) THEN << s[1] >>
        ELSE IF s[1] = " " THEN << "+" >>
        ELSE << "%", HexDigits[(CharCode(s[1]) \div 16) + 1],
                HexDigits[(CharCode(s[1]) % 16) + 1] >>)
       \o S3EncodeKey(Tail(s))

PutEvent(rawKey) == [eventName |-> "ObjectCreated:Put", key |-> rawKey]

\* events that do not come from an upload made with a signed URL: another
\* event type, a key that is not valid percent-encoding, a key outside the
\* layout, and a well-formed key of a file that has no record
CopyEvent == [eventName |-> "ObjectCreated:Copy", key |-> << "p", "d", "f", "/", "u", "1", "/", "2", "0", "2", "6", "/", "1", "1", "/", "0", "1", "/", "f", "1", ".", "p", "d", "f" >>]
BadEncodingEvent == PutEvent(<< "p", "d", "f", "/", "u", "1", "/", "%" >>)
ShortKeyEvent == PutEvent(<< "u", "p", "l", "o", "a", "d", "s", "/", "u", "1", "/", "f", "1", ".", "p", "d", "f" >>)
NoRecordEvent == PutEvent(<< "p", "d", "f", "/", "u", "1", "/", "2", "0", "2", "6", "/", "1", "1", "/", "0", "1", "/", "z", "z", ".", "p", "d", "f" >>)

\* the events that can be delivered: one for every upload that a signed URL
\* allows (S3 may deliver it more than once), and the foreign ones
Events(foreign) == { PutEvent(S3EncodeKey(s.key)) : s \in signed } \cup foreign

Batches(foreign, maxLen) == UNION { [1..n -> Events(foreign)] : n \in 1..maxLen }

(***************************************************************************)
(* The S3 event handler.  An invocation walks through its batch; pc is     *)
(* "loop" between records and names the pending repository call otherwise. *)
(* reads counts the lookups (getFileById, getFile) the invocation has sent *)
(* to the repository.                                                      *)
(***************************************************************************)
Invocations == 1..MaxInvocations

NoCall == [none |-> TRUE]

InvIdle ==
  [pc |-> "idle", batch |-> << >>, idx |-> 0, results |-> << >>, call |-> NoCall,
   outcome |-> "none", reads |-> 0]

\* processedRecords.push({ key, success }) and on to the next record
Push(r, success) ==
  [r EXCEPT !.pc = "loop", !.idx = r.idx + 1, !.results = Append(r.results, success),
            !.call = NoCall]

\* a faulty variant: no idempotency check, every record that is not in
\* another state is written
afterLookup_NoIdempotencyCheck(r, fileId, existingFile, now) ==
  LET status == IF Has(existingFile, "status") THEN existingFile.status ELSE "undefined"
      fileUserId == IF Has(existingFile, "userId") THEN existingFile.userId
                    ELSE << "u", "n", "d", "e", "f", "i", "n", "e", "d" >>
  IN IF status \notin { "UPLOADED", "PENDING_UPLOAD" } THEN Push(r, FALSE)
     ELSE [r EXCEPT !.pc = "updateFile",
                    !.call = [fileId |-> fileId, userId |-> fileUserId,
                              uploadedAt |-> now]]

\* a faulty variant: every record that is not UPLOADED is written
afterLookup_WritesUnlessUploaded(r, fileId, existingFile, now) ==
  LET status == IF Has(existingFile, "status") THEN existingFile.status ELSE "undefined"
      fileUserId == IF Has(existingFile, "userId") THEN existingFile.userId
                    ELSE << "u", "n", "d", "e", "f", "i", "n", "e", "d" >>
  IN IF status = "UPLOADED" THEN Push(r, TRUE)
     ELSE [r EXCEPT !.pc = "updateFile",
                    !.call = [fileId |-> fileId, userId |-> fileUserId,
                              uploadedAt |-> now]]

\* a faulty variant: updateFile is called with the owner segment of the key
afterLookup_ParsedOwner(r, fileId, existingFile, now) ==
  LET status == IF Has(existingFile, "status") THEN existingFile.status ELSE "undefined"
  IN IF status = "UPLOADED" THEN Push(r, TRUE)
     ELSE IF status # "PENDING_UPLOAD" THEN Push(r, FALSE)
     ELSE [r EXCEPT !.pc = "updateFile",
                    !.call = [fileId |-> fileId,
                              userId |-> extractUserIdFromKey(
                                           decodeURIComponent(ReplacePlus(r.batch[r.idx].key))),
                              uploadedAt |-> now]]

\* the handler once it holds the record: the idempotency check, and the call
\* of updateFile for a record that is PENDING_UPLOAD
afterLookup(r, fileId, existingFile, now) ==
  LET status == IF Has(existingFile, "status") THEN existingFile.status ELSE "undefined"
      fileUserId == IF Has(existingFile, "userId") THEN existingFile.userId
                    ELSE << "u", "n", "d", "e", "f", "i", "n", "e", "d" >>
  IN IF status = "UPLOADED" THEN Push(r, TRUE)
     ELSE IF status # "PENDING_UPLOAD" THEN Push(r, FALSE)
     ELSE [r EXCEPT !.pc = "updateFile",
                    !.call = [fileId |-> fileId, userId |-> fileUserId,
                              uploadedAt |-> now]]

\* Lambda starts an invocation; the instances are interchangeable, so the
\* first idle one is taken
HandlerInvoke(i, batch) ==
  /\ inv[i].pc = "idle"
  /\ \A j \in 1..(i - 1) : inv[j].pc # "idle"
  /\ inv' = [inv EXCEPT ![i] = [InvIdle EXCEPT !.pc = "loop", !.batch = batch, !.idx = 1]]
  /\ UNCHANGED << pure, api, table, clock, issVars, updateLog, sw, li >>

\* one record of the batch, up to the response of getFileById
HandlerRecord(i) ==
  LET r == inv[i]
      record == r.batch[r.idx]
      key == decodeURIComponent(ReplacePlus(record.key))
      fileId == extractFileIdFromKey(key)
      userId == extractUserIdFromKey(key)
  IN /\ r.pc = "loop"
     /\ r.idx <= Len(r.batch)
     /\ IF key = URIError
        THEN inv' = [inv EXCEPT ![i] = [r EXCEPT !.pc = "done", !.outcome = "URIError"]]
        ELSE IF record.eventName # "ObjectCreated:Put"
        THEN inv' = [inv EXCEPT ![i] = Push(r, TRUE)]
        ELSE IF Falsy(fileId) \/ Falsy(userId)
        THEN inv' = [inv EXCEPT ![i] = Push(r, FALSE)]
        ELSE \E existingFile \in getFileById(table, fileId) :
               IF existingFile = NullFile
               THEN inv' = [inv EXCEPT ![i] = [r EXCEPT !.pc = "getFile",
                               !.call = [fileId |-> fileId, userId |-> userId],
                               !.reads = r.reads + 2]]
               ELSE inv' = [inv EXCEPT ![i] =
                              afterLookup([r EXCEPT !.reads = r.reads + 1], fileId,
                                          existingFile, Now(clock))]
     /\ UNCHANGED << pure, api, table, clock, issVars, updateLog, sw, li >>

\* the response of the fallback getFile(fileId, userId)
HandlerGetFile(i) ==
  LET r == inv[i]
      existingFile == getFile(table, r.call.fileId, r.call.userId)
  IN /\ r.pc = "getFile"
     /\ IF existingFile = NullFile
        THEN inv' = [inv EXCEPT ![i] = Push(r, FALSE)]
        ELSE inv' = [inv EXCEPT ![i] =
                       afterLookup(r, r.call.fileId, existingFile, Now(clock))]
     /\ UNCHANGED << pure, api, table, clock, issVars, updateLog, sw, li >>

\* the UpdateCommand of updateFile(fileId, fileUserId, {status, uploadedAt})
\* is applied; uploadedAt and updatedAt were taken when the call was made
HandlerUpdateFile(i) ==
  LET r == inv[i]
      updates == [status |-> "UPLOADED", uploadedAt |-> r.call.uploadedAt]
  IN /\ r.pc = "updateFile"
     /\ table' = updateFile(table, r.call.fileId, r.call.userId, updates, r.call.uploadedAt)
     /\ updateLog' = Append(updateLog,
                            [PK |-> PKOf(r.call.userId), SK |-> SKOf(r.call.fileId),
                             by |-> i,
                             sets |-> updateFileSets(updates, r.call.uploadedAt)])
     /\ inv' = [inv EXCEPT ![i] = Push(r, TRUE)]
     /\ UNCHANGED << pure, api, clock, issVars, sw, li >>

\* the loop is over: throw if a record failed
HandlerReturn(i) ==
  LET r == inv[i]
      failureCount == Cardinality({ j \in 1..Len(r.results) : ~r.results[j] })
  IN /\ r.pc = "loop"
     /\ r.idx > Len(r.batch)
     /\ inv' = [inv EXCEPT ![i] = [r EXCEPT !.pc = "done",
                   !.outcome = IF failureCount > 0 THEN "Error" ELSE "returned"]]
     /\ UNCHANGED << pure, api, table, clock, issVars, updateLog, sw, li >>

\* a repository call of the handler throws: the catch block records the
\* failure and the loop goes on
HandlerCallFails(i) ==
  LET r == inv[i]
      record == r.batch[r.idx]
      key == decodeURIComponent(ReplacePlus(record.key))
  IN /\ \/ r.pc \in { "getFile", "updateFile" }
        \/ /\ r.pc = "loop"
           /\ r.idx <= Len(r.batch)
           /\ key # URIError
           /\ record.eventName = "ObjectCreated:Put"
           /\ ~Falsy(extractFileIdFromKey(key))
           /\ ~Falsy(extractUserIdFromKey(key))
     /\ inv' = [inv EXCEPT ![i] =
                   Push([r EXCEPT !.reads = IF r.pc = "loop" THEN r.reads + 1 ELSE r.reads],
                        FALSE)]
     /\ UNCHANGED << pure, api, table, clock, issVars, updateLog, sw, li >>

(***************************************************************************)
(* deleteExpiredPendingFiles(expiredBefore).  The query on                 *)
(* StatusExpiresAtIndex returns its result in one page; the model's table  *)
(* is far below the size at which DynamoDB splits a result.                *)
(***************************************************************************)
ScanLimit == 100

SwIdle == [pc |-> "idle"]

\* a faulty variant: the key condition on status is missing
StatusExpiresAtIndex_AnyStatus(t, status, expiredBefore) ==
  { i \in Items(t) : /\ Has(i, "status") /\ Has(i, "expiresAt")
                     /\ i.expiresAt < expiredBefore }

\* StatusExpiresAtIndex holds the items that have status and expiresAt
StatusExpiresAtIndex(t, status, expiredBefore) ==
  { i \in Items(t) : /\ Has(i, "status") /\ Has(i, "expiresAt")
                     /\ i.status = status /\ i.expiresAt < expiredBefore }

\* the orders in which an index query can return the items of S: ascending
\* in the range key expiresAt, items with equal expiresAt in any order
QueryOrders(S) ==
  { q \in [1..Cardinality(S) -> S] :
      /\ \A a, b \in 1..Cardinality(S) : a # b => q[a] # q[b]
      /\ \A a, b \in 1..Cardinality(S) : a < b => q[a].expiresAt <= q[b].expiresAt }

\* the items a Scan with Limit n evaluates: n items of the table, or all
ScanEvaluated(t, n) ==
  IF Cardinality(Items(t)) <= n THEN { Items(t) }
  ELSE { S \in SUBSET Items(t) : Cardinality(S) = n }

ScanOrders(S) ==
  { q \in [1..Cardinality(S) -> S] : \A a, b \in 1..Cardinality(S) : a # b => q[a] # q[b] }

KeysOf(q) == [j \in 1..Len(q) |-> << q[j].PK, q[j].SK >>]

\* the index query is answered
SweepQuery(expiredBefore) ==
  /\ sw.pc = "idle"
  /\ \E q \in QueryOrders(StatusExpiresAtIndex(table, "PENDING_UPLOAD", expiredBefore)) :
        sw' = [pc |-> "deleteExpired", deletedCount |-> 0,
               expiredBefore |-> expiredBefore, queue |-> KeysOf(q), before |-> table,
               failed |-> { }, scanned |-> { }]
  /\ UNCHANGED << pure, api, table, clock, issVars, invVars, li >>

\* a DeleteCommand for the next item of the result is applied
SweepDelete ==
  /\ sw.pc \in { "deleteExpired", "deleteOld" }
  /\ sw.queue # << >>
  /\ table' = DeleteItem(table, Head(sw.queue)[1], Head(sw.queue)[2])
  /\ sw' = [sw EXCEPT !.queue = Tail(sw.queue), !.deletedCount = sw.deletedCount + 1]
  /\ UNCHANGED << pure, api, clock, issVars, invVars, li >>

\* a faulty variant: a DeleteCommand that throws ends the loop
SweepDeleteFails_Aborts ==
  /\ sw.pc \in { "deleteExpired", "deleteOld" }
  /\ sw.queue # << >>
  /\ sw' = [sw EXCEPT !.queue = << >>, !.failed = sw.failed \cup { Head(sw.queue) }]
  /\ UNCHANGED << pure, api, table, clock, issVars, invVars, li >>

\* a DeleteCommand throws: logged, and on to the next item; failed is
\* history, the keys whose DeleteCommand threw
SweepDeleteFails ==
  /\ sw.pc \in { "deleteExpired", "deleteOld" }
  /\ sw.queue # << >>
  /\ sw' = [sw EXCEPT !.queue = Tail(sw.queue), !.failed = sw.failed \cup { Head(sw.queue) }]
  /\ UNCHANGED << pure, api, table, clock, issVars, invVars, li >>

\* a faulty variant: the filter of the Scan has no condition on expiresAt
SweepScan_AnyPending ==
  /\ sw.pc = "deleteExpired"
  /\ sw.queue = << >>
  /\ \E evaluated \in ScanEvaluated(table, ScanLimit) :
       \E q \in ScanOrders({ i \in evaluated :
                               Has(i, "status") /\ i.status = "PENDING_UPLOAD" }) :
          sw' = [sw EXCEPT !.pc = "deleteOld", !.queue = KeysOf(q),
                           !.scanned = { KeysOf(q)[j] : j \in 1..Len(q) }]
  /\ UNCHANGED << pure, api, table, clock, issVars, invVars, li >>

\* the Scan for PENDING_UPLOAD items without expiresAt is answered; scanned
\* is history, the keys the Scan returned
SweepScan ==
  /\ sw.pc = "deleteExpired"
  /\ sw.queue = << >>
  /\ \E evaluated \in ScanEvaluated(table, ScanLimit) :
       \E q \in ScanOrders({ i \in evaluated :
                               /\ Has(i, "status") /\ i.status = "PENDING_UPLOAD"
                               /\ ~Has(i, "expiresAt") }) :
          sw' = [sw EXCEPT !.pc = "deleteOld", !.queue = KeysOf(q),
                           !.scanned = { KeysOf(q)[j] : j \in 1..Len(q) }]
  /\ UNCHANGED << pure, api, table, clock, issVars, invVars, li >>

\* return deletedCount
SweepReturn ==
  /\ sw.pc = "deleteOld"
  /\ sw.queue = << >>
  /\ sw' = [pc |-> "returned", deletedCount |-> sw.deletedCount,
            expiredBefore |-> sw.expiredBefore, before |-> sw.before,
            failed |-> sw.failed, scanned |-> sw.scanned]
  /\ UNCHANGED << pure, api, table, clock, issVars, invVars, li >>

(***************************************************************************)
(* The pagination cursor: base64 of the JSON text of the last evaluated    *)
(* key.                                                                    *)
(***************************************************************************)
Base64Alphabet ==
  << "A", "B", "C", "D", "E", "F", "G", "H", "I", "J", "K", "L", "M", "N", "O", "P",
     "Q", "R", "S", "T", "U", "V", "W", "X", "Y", "Z", "a", "b", "c", "d", "e", "f",
     "g", "h", "i", "j", "k", "l", "m", "n", "o", "p", "q", "r", "s", "t", "u", "v",
     "w", "x", "y", "z", "0", "1", "2", "3", "4", "5", "6", "7", "8", "9", "+", "/" >>

SyntaxError == [SyntaxError |-> TRUE]

RECURSIVE Base64Encode(_)
\* Buffer.from(text).toString("base64"), for text of ASCII characters
Base64Encode(s) ==
  LET b(j) == CharCode(s[j])
      c(n) == Base64Alphabet[n + 1]
  IN IF Len(s) = 0 THEN << >>
     ELSE IF Len(s) = 1
     THEN << c(b(1) \div 4), c((b(1) % 4) * 16), "=", "=" >>
     ELSE IF Len(s) = 2
     THEN << c(b(1) \div 4), c((b(1) % 4) * 16 + b(2) \div 16), c((b(2) % 16) * 4), "=" >>
     ELSE << c(b(1) \div 4), c((b(1) % 4) * 16 + b(2) \div 16),
             c((b(2) % 16) * 4 + b(3) \div 64), c(b(3) % 64) >>
          \o Base64Encode(SubSeq(s, 4, Len(s)))

IsBase64Char(ch) == \E n \in 1..64 : Base64Alphabet[n] = ch

Base64Val(ch) == (CHOOSE n \in 1..64 : Base64Alphabet[n] = ch) - 1

\* a decoded byte as a character; a byte outside printable ASCII is not
\* told apart further
ByteChar(n) == IF n >= 32 /\ n <= 126 THEN CodeChar(n) ELSE "NONPRINTABLE"

RECURSIVE Base64DecodeValid(_)
Base64DecodeValid(s) ==
  LET v(j) == Base64Val(s[j])
  IN IF Len(s) < 2 THEN << >>
     ELSE IF Len(s) = 2
     THEN << ByteChar(v(1) * 4 + v(2) \div 16) >>
     ELSE IF Len(s) = 3
     THEN << ByteChar(v(1) * 4 + v(2) \div 16), ByteChar((v(2) % 16) * 16 + v(3) \div 4) >>
     ELSE << ByteChar(v(1) * 4 + v(2) \div 16), ByteChar((v(2) % 16) * 16 + v(3) \div 4),
             ByteChar((v(3) % 4) * 64 + v(4)) >>
          \o Base64DecodeValid(SubSeq(s, 5, Len(s)))

\* Buffer.from(cursor, "base64").toString("utf-8"): characters outside the
\* base64 alphabet are skipped
Base64Decode(s) == Base64DecodeValid(SelectSeq(s, IsBase64Char))

RECURSIVE JsonQuote(_)
\* the characters of a JSON string literal, without the enclosing quotes
JsonQuote(s) ==
  IF Len(s) = 0 THEN << >>
  ELSE (IF s[1] = "\"" \/ s[1] = "\\" THEN << "\\", s[1] >> ELSE << s[1] >>)
       \o JsonQuote(Tail(s))

\* JSON.stringify(LastEvaluatedKey)
JsonStringifyKey(k) ==
  << "{", "\"", "P", "K", "\"", ":", "\"" >> \o JsonQuote(k.PK) \o << "\"", ",", "\"", "S", "K", "\"", ":", "\"" >> \o JsonQuote(k.SK) \o << "\"", "}" >>

RECURSIVE JsonReadString(_)
\* reads a string literal's characters up to the closing quote: the value
\* and the text after the quote
JsonReadString(s) ==
  IF Len(s) = 0 \/ s[1] = "NONPRINTABLE" THEN SyntaxError
  ELSE IF s[1] = "\"" THEN [value |-> << >>, rest |-> Tail(s)]
  ELSE IF s[1] = "\\"
       THEN IF Len(s) < 2 \/ s[2] \notin { "\"", "\\", "/" } THEN SyntaxError
            ELSE LET r == JsonReadString(SubSeq(s, 3, Len(s)))
                 IN IF r = SyntaxError THEN SyntaxError
                    ELSE [value |-> << s[2] >> \o r.value, rest |-> r.rest]
       ELSE LET r == JsonReadString(Tail(s))
            IN IF r = SyntaxError THEN SyntaxError
               ELSE [value |-> << s[1] >> \o r.value, rest |-> r.rest]

\* JSON.parse of the text of a key object {"PK":"...","SK":"..."}; any other
\* text is reported as a SyntaxError
JsonParseKey(s) ==
  IF ~StartsWith(s, << "{", "\"", "P", "K", "\"", ":", "\"" >>) THEN SyntaxError
  ELSE LET pk == JsonReadString(SubSeq(s, Len(<< "{", "\"", "P", "K", "\"", ":", "\"" >>) + 1, Len(s)))
       IN IF pk = SyntaxError \/ ~StartsWith(pk.rest, Tail(<< "\"", ",", "\"", "S", "K", "\"", ":", "\"" >>)) THEN SyntaxError
          ELSE LET sk == JsonReadString(SubSeq(pk.rest, Len(<< "\"", ",", "\"", "S", "K", "\"", ":", "\"" >>), Len(pk.rest)))
               IN IF sk = SyntaxError \/ sk.rest # Tail(<< "\"", "}" >>) THEN SyntaxError
                  ELSE [PK |-> pk.value, SK |-> sk.value]

\* a faulty variant: the key's strings are put into the JSON text as they are
encodeCursor_Unescaped(lastEvaluatedKey) ==
  Base64Encode(<< "{", "\"", "P", "K", "\"", ":", "\"" >> \o lastEvaluatedKey.PK
               \o << "\"", ",", "\"", "S", "K", "\"", ":", "\"" >> \o lastEvaluatedKey.SK
               \o << "\"", "}" >>)

encodeCursor(lastEvaluatedKey) == Base64Encode(JsonStringifyKey(lastEvaluatedKey))

\* a faulty variant: a cursor that does not parse starts the query at an
\* empty key
decodeCursor_EmptyKey(cursor) ==
  IF cursor = NoCursor \/ cursor = << >> THEN NoKey
  ELSE LET parsed == JsonParseKey(Base64Decode(cursor))
       IN IF parsed = SyntaxError THEN [PK |-> << >>, SK |-> << >>] ELSE parsed

\* the ExclusiveStartKey listFiles derives from its cursor argument
decodeCursor(cursor) ==
  IF cursor = NoCursor \/ cursor = << >> THEN NoKey
  ELSE LET parsed == JsonParseKey(Base64Decode(cursor))
       IN IF parsed = SyntaxError THEN NoKey ELSE parsed

(***************************************************************************)
(* listFiles(userId, limit, cursor)                                        *)
(***************************************************************************)
RECURSIVE DescendingBySK(_)
\* the items of S, largest sort key first
DescendingBySK(S) ==
  IF S = { } THEN << >>
  ELSE LET top == CHOOSE i \in S : \A j \in S : j = i \/ LexLess(j.SK, i.SK)
       IN << top >> \o DescendingBySK(S \ { top })

\* a faulty variant: the query starts at the start key, not after it
QueryPartition_InclusiveStart(t, pk, limit, exclusiveStartKey) ==
  LET partition == { i \in Items(t) : i.PK = pk }
      remaining == IF exclusiveStartKey = NoKey THEN partition
                   ELSE { i \in partition : ~LexLess(exclusiveStartKey.SK, i.SK) }
      ordered == DescendingBySK(remaining)
      page == SubSeq(ordered, 1, IF Len(ordered) < limit THEN Len(ordered) ELSE limit)
  IN [Items |-> page,
      LastEvaluatedKey |-> IF Len(page) = limit /\ limit > 0
                           THEN [PK |-> page[Len(page)].PK, SK |-> page[Len(page)].SK]
                           ELSE NoKey]

\* Query with PK = pk, ScanIndexForward false, Limit and ExclusiveStartKey:
\* LastEvaluatedKey is returned when the query stopped at the limit
QueryPartition(t, pk, limit, exclusiveStartKey) ==
  LET partition == { i \in Items(t) : i.PK = pk }
      remaining == IF exclusiveStartKey = NoKey THEN partition
                   ELSE { i \in partition : LexLess(i.SK, exclusiveStartKey.SK) }
      ordered == DescendingBySK(remaining)
      page == SubSeq(ordered, 1, IF Len(ordered) < limit THEN Len(ordered) ELSE limit)
  IN [Items |-> page,
      LastEvaluatedKey |-> IF Len(page) = limit /\ limit > 0
                           THEN [PK |-> page[Len(page)].PK, SK |-> page[Len(page)].SK]
                           ELSE NoKey]

listFiles(t, userId, limit, cursor) ==
  LET result == QueryPartition(t, PKOf(userId), limit, decodeCursor(cursor))
  IN [files |-> [j \in 1..Len(result.Items) |-> ToFile(result.Items[j])],
      nextCursor |-> IF result.LastEvaluatedKey # NoKey
                     THEN encodeCursor(result.LastEvaluatedKey) ELSE NoCursor]

(***************************************************************************)
(* A client that lists an owner's files page by page, following            *)
(* nextCursor until it is absent.  files collects the fileId and userId of *)
(* every file returned.                                                    *)
(***************************************************************************)
LiIdle == [pc |-> "idle"]

afterPage(l, result) ==
  [l EXCEPT !.pc = IF result.nextCursor = NoCursor THEN "done" ELSE "paging",
            !.cursor = result.nextCursor,
            !.calls = l.calls + 1,
            !.files = l.files \o [j \in 1..Len(result.files) |->
                                    Without(result.files[j],
                                            FileFields \ { "fileId", "userId" })]]

ListFirst(userId, limit) ==
  /\ li.pc = "idle"
  /\ li' = afterPage([pc |-> "paging", userId |-> userId,
                      limit |-> limit, cursor |-> NoCursor, calls |-> 0, files |-> << >>],
                     listFiles(table, userId, limit, NoCursor))
  /\ UNCHANGED << pure, api, table, clock, issVars, invVars, sw >>

ListNext ==
  /\ li.pc = "paging"
  /\ li' = afterPage(li, listFiles(table, li.userId, li.limit, li.cursor))
  /\ UNCHANGED << pure, api, table, clock, issVars, invVars, sw >>

\* cursors that are not the base64 of a JSON text: bytes that are no text,
\* no base64 character at all, and the first half of a key object
BadCursors == { << "i", "n", "v", "a", "l", "i", "d" >>, << "a", "b", "c" >>, << "!", "!", "!" >>, << "e", "y", "J", "Q", "S", "y", "I", "6" >> }

\* the cursors a caller can pass: the bad ones, and the cursor of any key
Cursors ==
  BadCursors \cup { encodeCursor([PK |-> k[1], SK |-> k[2]]) : k \in DOMAIN table }

\* one listFiles(userId, limit, cursor) call with a cursor of the caller
ListFilesCursor(userId, limit, cursor) ==
  /\ api = NoEvaluation
  /\ api' = [op |-> "listFiles", userId |-> userId, limit |-> limit,
             cursor |-> cursor, result |-> listFiles(table, userId, limit, cursor)]
  /\ UNCHANGED << table, clock, issVars, invVars, sw, li, pure >>

(***************************************************************************)
(* The system.  Spec is the upload path: issuances and handler             *)
(* invocations, every DynamoDB and S3 request being answered.  SpecIssue   *)
(* is the issuer alone, with the requests that fail.  SpecSweep and        *)
(* SpecList run one                                                        *)
(* deleteExpiredPendingFiles call, or one listing, against the table the   *)
(* upload path has produced, nothing else running meanwhile;               *)
(* SpecSweepFaults adds DeleteCommands that fail, SpecCursor lists with a  *)
(* cursor of the caller's making.  SpecApi is the API and the handler over *)
(* the days, with the table's deletion by ttl.  SpecPure evaluates the     *)
(* functions without side effect.                                          *)
(***************************************************************************)
Configs(owners) == { [userId |-> u] : u \in owners }

AcceptedRequests == { request \in Requests : Validation[request].ok }

\* randomUUID returns a fresh id; where the order of the ids plays no part
\* it is the first unused one of the pool
FreshIds(n) ==
  { id \in FileIds(n) \ usedIds :
      \A other \in FileIds(n) \ usedIds : other = id \/ LexLess(id, other) }

\* the expiredBefore a caller can pass: a time of the clock, up to two
\* ticks after the last one, or the very expiresAt of a record
Thresholds ==
  { Now(c) : c \in 0..(MaxClock + 2) }
    \cup { i.expiresAt : i \in { j \in Items(table) : Has(j, "expiresAt") } }

Init ==
  /\ table = << >>
  /\ clock = 0
  /\ iss = IssIdle
  /\ resp = NoResponse
  /\ usedIds = { }
  /\ createdIds = { }
  /\ signRequested = { }
  /\ signed = { }
  /\ inv = [i \in Invocations |-> InvIdle]
  /\ updateLog = << >>
  /\ sw = SwIdle
  /\ li = LiIdle
  /\ api = NoEvaluation
  /\ pure = NoEvaluation

Issuer(owners, requests, ids) ==
  \/ \E config \in Configs(owners), request \in requests, fileId \in ids :
        GenerateUploadUrlCreate(config, request, fileId)
  \/ GenerateUploadUrlSigned

IssuerFaults(owners, requests, ids) ==
  \/ \E config \in Configs(owners), request \in requests, fileId \in ids,
        thrown \in ThrownValues :
          GenerateUploadUrlCreateFails(config, request, fileId, thrown)
  \/ \E thrown \in ThrownValues : GenerateUploadUrlSignFails(thrown)

Reconciler(invocations, foreign, maxLen) ==
  \/ \E i \in invocations :
        /\ inv[i].pc = "idle"
        /\ \E batch \in Batches(foreign, maxLen) : HandlerInvoke(i, batch)
  \/ \E i \in invocations : HandlerRecord(i)
  \/ \E i \in invocations : HandlerGetFile(i)
  \/ \E i \in invocations : HandlerUpdateFile(i)
  \/ \E i \in invocations : HandlerReturn(i)

ReconcilerFaults(invocations) == \E i \in invocations : HandlerCallFails(i)

Sweeper ==
  \/ \E expiredBefore \in Thresholds : SweepQuery(expiredBefore)
  \/ SweepDelete
  \/ SweepScan
  \/ SweepReturn

Lister ==
  \/ \E userId \in Owners, limit \in 1..MaxLimit : ListFirst(userId, limit)
  \/ ListNext

\* POST /v1/files: the service is configured with one user, and the route
\* passes on only application/pdf requests of at most MAX_PDF_SIZE_BYTES
DefaultUser == { << "u", "1" >> }

ApiRequests ==
  { request \in Requests :
      /\ request.contentType = ALLOWED_PDF_TYPES[1]
      /\ request.size <= MAX_PDF_SIZE_BYTES }

\* the events the handler can receive besides those of signed uploads
ForeignEvents == { CopyEvent, BadEncodingEvent, ShortKeyEvent, NoRecordEvent }

Next ==
  \/ Tick
  \/ Issuer(DefaultUser, ApiRequests, FreshIds(MaxIssues))
  \/ Reconciler(Invocations, ForeignEvents, MaxBatch)

Spec == Init /\ [][Next]_vars

\* issuances only, for any configured user and any request, with the
\* requests that fail
NextIssue ==
  \/ Tick
  \/ Issuer(Owners, Requests, FreshIds(MaxIssues))
  \/ IssuerFaults(Owners, Requests, FreshIds(MaxIssues))

SpecIssue == Init /\ [][NextIssue]_vars

\* one deleteExpiredPendingFiles call on the table the upload path has
\* produced, nothing else running during the call; the handler runs once,
\* on one event of a signed upload
OneInvocation == { 1 }
NoForeignEvents == { }

NextSweep ==
  \/ /\ sw.pc = "idle"
     /\ \/ Tick
        \/ Issuer(DefaultUser, ApiRequests, FreshIds(MaxSwept))
        \/ Reconciler(OneInvocation, NoForeignEvents, 1)
  \/ Sweeper

SpecSweep == Init /\ [][NextSweep]_vars

\* the same, with DeleteCommands that fail
NextSweepFaults ==
  \/ NextSweep
  \/ SweepDeleteFails

SpecSweepFaults == Init /\ [][NextSweepFaults]_vars

\* one listing of the files of a user, nothing else running during the
\* listing
ListedIds == FileIds(MaxListed)

NextList ==
  \/ /\ li.pc = "idle"
     /\ (Tick \/ Issuer(Owners, ApiRequests, ListedIds))
  \/ Lister

SpecList == Init /\ [][NextList]_vars

\* primary keys, those of the table and others with characters that JSON
\* escapes or base64 pads, each with the value of
\* Buffer.from(JSON.stringify(key)).toString("base64")
CursorVectors ==
  {
    [key |-> [PK |-> << "U", "S", "E", "R", "#", "u", "1" >>, SK |-> << "F", "I", "L", "E", "#", "f", "4" >>],
     cursor |-> << "e", "y", "J", "Q", "S", "y", "I", "6", "I", "l", "V", "T", "R", "V", "I", "j", "d", "T", "E", "i", "L", "C", "J", "T", "S", "y", "I", "6", "I", "k", "Z", "J", "T", "E", "U", "j", "Z", "j", "Q", "i", "f", "Q", "=", "=" >>],
    [key |-> [PK |-> << "U", "S", "E", "R", "#", "u", "1" >>, SK |-> << "F", "I", "L", "E", "#", "f", "5" >>],
     cursor |-> << "e", "y", "J", "Q", "S", "y", "I", "6", "I", "l", "V", "T", "R", "V", "I", "j", "d", "T", "E", "i", "L", "C", "J", "T", "S", "y", "I", "6", "I", "k", "Z", "J", "T", "E", "U", "j", "Z", "j", "U", "i", "f", "Q", "=", "=" >>],
    [key |-> [PK |-> << "U", "S", "E", "R", "#", "u", "2" >>, SK |-> << "F", "I", "L", "E", "#", "f", "4" >>],
     cursor |-> << "e", "y", "J", "Q", "S", "y", "I", "6", "I", "l", "V", "T", "R", "V", "I", "j", "d", "T", "I", "i", "L", "C", "J", "T", "S", "y", "I", "6", "I", "k", "Z", "J", "T", "E", "U", "j", "Z", "j", "Q", "i", "f", "Q", "=", "=" >>],
    [key |-> [PK |-> << "U", "S", "E", "R", "#", "u", "2" >>, SK |-> << "F", "I", "L", "E", "#", "f", "5" >>],
     cursor |-> << "e", "y", "J", "Q", "S", "y", "I", "6", "I", "l", "V", "T", "R", "V", "I", "j", "d", "T", "I", "i", "L", "C", "J", "T", "S", "y", "I", "6", "I", "k", "Z", "J", "T", "E", "U", "j", "Z", "j", "U", "i", "f", "Q", "=", "=" >>],
    [key |-> [PK |-> << "U", "S", "E", "R", "#", "u", "1" >>, SK |-> << "F", "I", "L", "E", "#", "f", "1" >>],
     cursor |-> << "e", "y", "J", "Q", "S", "y", "I", "6", "I", "l", "V", "T", "R", "V", "I", "j", "d", "T", "E", "i", "L", "C", "J", "T", "S", "y", "I", "6", "I", "k", "Z", "J", "T", "E", "U", "j", "Z", "j", "E", "i", "f", "Q", "=", "=" >>],
    [key |-> [PK |-> << "U", "S", "E", "R", "#", "u", "1" >>, SK |-> << "F", "I", "L", "E", "#", "f", "2" >>],
     cursor |-> << "e", "y", "J", "Q", "S", "y", "I", "6", "I", "l", "V", "T", "R", "V", "I", "j", "d", "T", "E", "i", "L", "C", "J", "T", "S", "y", "I", "6", "I", "k", "Z", "J", "T", "E", "U", "j", "Z", "j", "I", "i", "f", "Q", "=", "=" >>],
    [key |-> [PK |-> << "U", "S", "E", "R", "#", "u", "1" >>, SK |-> << "F", "I", "L", "E", "#", "f", "3" >>],
     cursor |-> << "e", "y", "J", "Q", "S", "y", "I", "6", "I", "l", "V", "T", "R", "V", "I", "j", "d", "T", "E", "i", "L", "C", "J", "T", "S", "y", "I", "6", "I", "k", "Z", "J", "T", "E", "U", "j", "Z", "j", "M", "i", "f", "Q", "=", "=" >>],
    [key |-> [PK |-> << "U", "S", "E", "R", "#", "u", "2" >>, SK |-> << "F", "I", "L", "E", "#", "f", "1" >>],
     cursor |-> << "e", "y", "J", "Q", "S", "y", "I", "6", "I", "l", "V", "T", "R", "V", "I", "j", "d", "T", "I", "i", "L", "C", "J", "T", "S", "y", "I", "6", "I", "k", "Z", "J", "T", "E", "U", "j", "Z", "j", "E", "i", "f", "Q", "=", "=" >>],
    [key |-> [PK |-> << "U", "S", "E", "R", "#", "u", "2" >>, SK |-> << "F", "I", "L", "E", "#", "f", "2" >>],
     cursor |-> << "e", "y", "J", "Q", "S", "y", "I", "6", "I", "l", "V", "T", "R", "V", "I", "j", "d", "T", "I", "i", "L", "C", "J", "T", "S", "y", "I", "6", "I", "k", "Z", "J", "T", "E", "U", "j", "Z", "j", "I", "i", "f", "Q", "=", "=" >>],
    [key |-> [PK |-> << "U", "S", "E", "R", "#", "u", "2" >>, SK |-> << "F", "I", "L", "E", "#", "f", "3" >>],
     cursor |-> << "e", "y", "J", "Q", "S", "y", "I", "6", "I", "l", "V", "T", "R", "V", "I", "j", "d", "T", "I", "i", "L", "C", "J", "T", "S", "y", "I", "6", "I", "k", "Z", "J", "T", "E", "U", "j", "Z", "j", "M", "i", "f", "Q", "=", "=" >>],
    [key |-> [PK |-> << "U", "S", "E", "R", "#", "a", "\"", "b" >>, SK |-> << "F", "I", "L", "E", "#", "c", "\\", "d" >>],
     cursor |-> << "e", "y", "J", "Q", "S", "y", "I", "6", "I", "l", "V", "T", "R", "V", "I", "j", "Y", "V", "w", "i", "Y", "i", "I", "s", "I", "l", "N", "L", "I", "j", "o", "i", "R", "k", "l", "M", "R", "S", "N", "j", "X", "F", "x", "k", "I", "n", "0", "=" >>],
    [key |-> [PK |-> <<  >>, SK |-> <<  >>],
     cursor |-> << "e", "y", "J", "Q", "S", "y", "I", "6", "I", "i", "I", "s", "I", "l", "N", "L", "I", "j", "o", "i", "I", "n", "0", "=" >>],
    [key |-> [PK |-> << "U", "S", "E", "R", "#", "u", "/", "1" >>, SK |-> << "F", "I", "L", "E", "#", "x", " ", "y" >>],
     cursor |-> << "e", "y", "J", "Q", "S", "y", "I", "6", "I", "l", "V", "T", "R", "V", "I", "j", "d", "S", "8", "x", "I", "i", "w", "i", "U", "0", "s", "i", "O", "i", "J", "G", "S", "U", "x", "F", "I", "3", "g", "g", "e", "S", "J", "9" >>],
    [key |-> [PK |-> << "U" >>, SK |-> << "F", "+", "=" >>],
     cursor |-> << "e", "y", "J", "Q", "S", "y", "I", "6", "I", "l", "U", "i", "L", "C", "J", "T", "S", "y", "I", "6", "I", "k", "Y", "r", "P", "S", "J", "9" >>],
    [key |-> [PK |-> << "U", "S", "E", "R", "#", "{", "\"", "P", "K", "\"", ":", "\"", "x", "\"", "}" >>, SK |-> << "F", "I", "L", "E", "#", "\\", "\"" >>],
     cursor |-> << "e", "y", "J", "Q", "S", "y", "I", "6", "I", "l", "V", "T", "R", "V", "I", "j", "e", "1", "w", "i", "U", "E", "t", "c", "I", "j", "p", "c", "I", "n", "h", "c", "I", "n", "0", "i", "L", "C", "J", "T", "S", "y", "I", "6", "I", "k", "Z", "J", "T", "E", "U", "j", "X", "F", "x", "c", "I", "i", "J", "9" >>] }

CursorKeys == { v.key : v \in CursorVectors }

\* a key made into a cursor as listFiles makes nextCursor, and the cursor
\* read back as listFiles reads its cursor argument
EncodeDecodeCursor(key) ==
  /\ pure = NoEvaluation
  /\ api = NoEvaluation
  /\ pure' = [op |-> "cursor", key |-> key, cursor |-> encodeCursor(key),
              decoded |-> decodeCursor(encodeCursor(key))]
  /\ UNCHANGED << table, clock, issVars, invVars, sw, li, api >>

\* one listFiles call with a cursor of the caller's making, on the table the
\* issuances have produced
NextCursor ==
  \/ /\ api = NoEvaluation
     /\ pure = NoEvaluation
     /\ Issuer(Owners, ApiRequests, ListedIds)
  \/ /\ pure = NoEvaluation
     /\ \E userId \in Owners, limit \in 1..MaxLimit, cursor \in Cursors :
           ListFilesCursor(userId, limit, cursor)
  \/ \E key \in CursorKeys : EncodeDecodeCursor(key)

SpecCursor == Init /\ [][NextCursor]_vars


(***************************************************************************)
(* GET /v1/files/:fileId.  The route looks the file up by its id in         *)
(* FileIdIndex and, when that finds nothing, under the default user.       *)
(***************************************************************************)
DEFAULT_USER_ID == << "u", "1" >>

\* the fields of the answer and the fields of the file they are taken from;
\* JSON leaves out a field that is undefined
BodyFields ==
  { << "id", "fileId" >>, << "name", "fileName" >>, << "mimeType", "mimeType" >>,
    << "sizeBytes", "sizeBytes" >>, << "status", "status" >>,
    << "createdAt", "createdAt" >>, << "updatedAt", "updatedAt" >>,
    << "uploadedAt", "uploadedAt" >> }

FileBody(file) ==
  LET present == { p \in BodyFields : Has(file, p[2]) }
  IN [a \in { "success" } \cup { p[1] : p \in present } |->
        IF a = "success" THEN TRUE
        ELSE file[(CHOOSE p \in present : p[1] = a)[2]]]

NotFoundBody == [success |-> FALSE, error |-> "File not found"]

\* history: an UpdateCommand has set the record of fileId to UPLOADED
BecameUploaded(fileId) ==
  \E j \in 1..Len(updateLog) :
     /\ updateLog[j].SK = SKOf(fileId)
     /\ updateLog[j].sets.status = "UPLOADED"

RouteBusy == Has(api, "pc") /\ api.pc = "getFile"

\* the route up to the response of getFileById(fileId); wasUploaded is
\* history: whether the file had been set to UPLOADED when the route was called
GetFileRouteById(fileId) ==
  /\ ~RouteBusy
  /\ \E file \in getFileById(table, fileId) :
       api' = IF file = NullFile
              THEN [op |-> "GET /v1/files/:fileId", pc |-> "getFile",
                    fileId |-> fileId, byId |-> NullFile,
                    wasUploaded |-> BecameUploaded(fileId)]
              ELSE [op |-> "GET /v1/files/:fileId", pc |-> "done",
                    fileId |-> fileId, byId |-> file,
                    wasUploaded |-> BecameUploaded(fileId),
                    code |-> 200, body |-> FileBody(file)]
  /\ UNCHANGED << table, clock, issVars, invVars, sw, li, pure >>

\* a faulty variant: the answer is 404 whatever getFile returns
GetFileRouteByUser_Always404 ==
  /\ RouteBusy
  /\ api' = [op |-> api.op, pc |-> "done", fileId |-> api.fileId, byId |-> api.byId,
             wasUploaded |-> api.wasUploaded,
             byUser |-> getFile(table, api.fileId, DEFAULT_USER_ID),
             code |-> 404, body |-> NotFoundBody]
  /\ UNCHANGED << table, clock, issVars, invVars, sw, li, pure >>

\* getFileById found nothing: the route up to the response of
\* getFile(fileId, DEFAULT_USER_ID)
GetFileRouteByUser ==
  LET file == getFile(table, api.fileId, DEFAULT_USER_ID)
  IN /\ RouteBusy
     /\ api' = [op |-> api.op, pc |-> "done", fileId |-> api.fileId, byId |-> api.byId,
                wasUploaded |-> api.wasUploaded, byUser |-> file,
                code |-> IF file = NullFile THEN 404 ELSE 200,
                body |-> IF file = NullFile THEN NotFoundBody ELSE FileBody(file)]
     /\ UNCHANGED << table, clock, issVars, invVars, sw, li, pure >>

GetFileRoute(fileIds) ==
  \/ \E fileId \in fileIds : GetFileRouteById(fileId)
  \/ GetFileRouteByUser

(***************************************************************************)
(* The table deletes by itself an item whose ttl attribute, in seconds, is *)
(* in the past.  Days pass.                                                *)
(***************************************************************************)
DayTicks == (24 * 60 * 60 * 1000) \div MsPerTick + 1

\* a function runs for 30 seconds at most: no call is in progress for a day
DayPasses ==
  /\ clock < MaxDays * DayTicks
  /\ iss.pc = "idle"
  /\ \A i \in Invocations : inv[i].pc \in { "idle", "done" }
  /\ ~RouteBusy
  /\ clock' = clock + DayTicks
  /\ UNCHANGED << table, issVars, invVars, sw, li, api, pure >>

TimeToLive ==
  /\ \E k \in DOMAIN table :
       /\ Has(table[k], "ttl")
       /\ table[k].ttl < Now(clock) \div 1000
       /\ table' = DeleteItem(table, k[1], k[2])
  /\ UNCHANGED << clock, issVars, invVars, sw, li, api, pure >>

\* the API and the handler over the days: uploads are issued, their events
\* are handled, files are looked up, and the table expires items
RouteIds == FileIds(MaxIssues)

NextApi ==
  \/ Tick
  \/ DayPasses
  \/ Issuer(Owners, ApiRequests, FreshIds(MaxIssues))
  \/ Reconciler(OneInvocation, NoForeignEvents, 1)
  \/ GetFileRoute(RouteIds)
  \/ TimeToLive

SpecApi == Init /\ [][NextApi]_vars


(***************************************************************************)
(* Properties of the upload path (Spec).                                   *)
(***************************************************************************)
\* the UpdateCommands that set the status of the item with key k
StatusWrites(k) ==
  { n \in 1..Len(updateLog) :
      /\ << updateLog[n].PK, updateLog[n].SK >> = k
      /\ Has(updateLog[n].sets, "status") }

\* the invocation has been handed, in position j, the event of an upload
\* made with a signed URL for the item with key k
DeliveredAt(i, j, k) ==
  /\ j \in 1..Len(inv[i].batch)
  /\ \E s \in signed :
       /\ << PKOf(s.userId), SKOf(s.fileId) >> = k
       /\ inv[i].batch[j] = PutEvent(S3EncodeKey(s.key))

Quiescent == \A i \in Invocations : inv[i].pc \in { "idle", "done" }

\* C1: creation events for the key of one PENDING_UPLOAD record, delivered
\* to any number of invocations whose reads and writes interleave in any
\* way, lead to exactly one updateFile that sets status = UPLOADED, and the
\* record ends UPLOADED
C1_ExactlyOneStatusWrite ==
  \A k \in DOMAIN table :
    /\ Cardinality(StatusWrites(k)) <= 1
    /\ ( /\ Quiescent
         /\ \E i \in Invocations : \E j \in 1..Len(inv[i].results) : DeliveredAt(i, j, k) )
       => /\ Cardinality(StatusWrites(k)) = 1
          /\ table[k].status = "UPLOADED"

\* the record that invocation i is about to be handed by the store is UPLOADED
ReadsUploaded(i) ==
  LET r == inv[i]
  IN \/ /\ r.pc = "loop"
        /\ r.idx <= Len(r.batch)
        /\ r.batch[r.idx].eventName = "ObjectCreated:Put"
        /\ LET key == decodeURIComponent(ReplacePlus(r.batch[r.idx].key))
           IN /\ key # URIError
              /\ ~Falsy(extractFileIdFromKey(key))
              /\ ~Falsy(extractUserIdFromKey(key))
              /\ \A f \in getFileById(table, extractFileIdFromKey(key)) :
                   Has(f, "status") /\ f.status = "UPLOADED"
     \/ /\ r.pc = "getFile"
        /\ LET f == getFile(table, r.call.fileId, r.call.userId)
           IN Has(f, "status") /\ f.status = "UPLOADED"

\* C2: when the handler processes a creation event and the record it reads
\* is already UPLOADED, it issues no updateFile, the table (status,
\* uploadedAt, updatedAt of every record) stays as it is, and the event is
\* recorded as a success
C2_IdempotentReplay ==
  [][ \A i \in Invocations :
        (ReadsUploaded(i) /\ inv'[i] # inv[i])
        => /\ inv'[i] = Push([inv[i] EXCEPT !.reads = inv'[i].reads], TRUE)
           /\ table' = table
           /\ updateLog' = updateLog ]_vars

\* an invocation has recorded a success for the event of a signed upload
\* without writing: the record was UPLOADED when it read it
C2_Witness ==
  \E i \in Invocations : \E j \in 1..Len(inv[i].results) : \E k \in DOMAIN table :
    /\ DeliveredAt(i, j, k)
    /\ inv[i].results[j]
    /\ \A n \in StatusWrites(k) : updateLog[n].by # i

\* C3: a record carries expiresAt or ttl only while it is PENDING_UPLOAD
C3_ExpiryOnlyWhilePending ==
  \A item \in Items(table) :
    (Has(item, "expiresAt") \/ Has(item, "ttl")) => item.status = "PENDING_UPLOAD"

\* C4: a record has uploadedAt exactly when its status is UPLOADED
C4_UploadedAtIffUploaded ==
  \A item \in Items(table) :
    Has(item, "uploadedAt") <=> (Has(item, "status") /\ item.status = "UPLOADED")

\* the reconciler has marked a record UPLOADED, while another one is still
\* PENDING_UPLOAD
C4_Witness ==
  /\ \E item \in Items(table) : item.status = "UPLOADED" /\ Has(item, "uploadedAt")
  /\ \E item \in Items(table) : item.status = "PENDING_UPLOAD" /\ ~Has(item, "uploadedAt")

\* C8: within one invocation every event is processed whatever happened to
\* the events before it (a key that cannot be decoded, a key outside the
\* layout, a missing record), and the record of every signed upload in the
\* batch ends UPLOADED
C8_EveryEventProcessed ==
  \A i \in Invocations :
    inv[i].pc = "done"
    => /\ Len(inv[i].batch) <= Len(inv[i].results) + 1
       /\ \A j \in 1..Len(inv[i].batch) : \A k \in DOMAIN table :
            DeliveredAt(i, j, k) => table[k].status = "UPLOADED"

\* C9: the invocation ends with an error exactly when one of its events was
\* recorded as failed
C9_ThrowsIffRecordedFailure ==
  \A i \in Invocations :
    inv[i].pc = "done"
    => ( inv[i].outcome # "returned"
         <=> \E j \in 1..Len(inv[i].results) : ~inv[i].results[j] )


(***************************************************************************)
(* Properties of generateUploadUrl (SpecIssue).                            *)
(***************************************************************************)
RecordOf(userId, fileId) == << PKOf(userId), SKOf(fileId) >>

\* C6: a signed URL is requested, and produced, only for a fileId whose
\* record createFile has already written; a fileId whose createFile failed
\* never gets a signed URL request
C6_RecordBeforeSignedUrl ==
  /\ signRequested \subseteq createdIds
  /\ (usedIds \ createdIds) \cap signRequested = { }
  /\ iss.pc = "getSignedUrl"
     => /\ iss.file.fileId \in createdIds
        /\ RecordOf(iss.file.userId, iss.file.fileId) \in DOMAIN table
  /\ \A s \in signed :
       /\ s.fileId \in createdIds
       /\ RecordOf(s.userId, s.fileId) \in DOMAIN table
       /\ table[RecordOf(s.userId, s.fileId)].s3Key = s.key
  /\ (Has(resp, "success") /\ resp.success) => resp.fileId \in createdIds

\* one call has produced a signed URL and another has failed in createFile
C6_Witness ==
  /\ signed # { }
  /\ usedIds \ createdIds # { }

\* what the service is to reject: a classified type of unknown, a content
\* type outside the allow-list, a size over the ceiling of the classified type
FailsValidation(request) ==
  LET fileType == detect(request.contentType, request.fileName)
  IN \/ fileType = "unknown"
     \/ \A i \in 1..Len(allowedTypes) :
          ToLowerCase(request.contentType) # ToLowerCase(allowedTypes[i])
     \/ request.size > (IF fileType = "pdf" THEN MAX_PDF_SIZE_BYTES
                        ELSE MAX_IMAGE_SIZE_BYTES)

ValidationErrors ==
  { "Unsupported file type", "Unsupported MIME type",
    "File size exceeds maximum allowed size" }

\* C7: a generateUploadUrl call with a request that fails validation returns
\* success = false with a reason, writes no record and requests no signed URL
C7_RejectionHasNoSideEffect ==
  [][ \A config \in Configs(Owners) : \A request \in Requests :
        \A fileId \in FileIds(MaxIssues) :
          (FailsValidation(request) /\ GenerateUploadUrlCreate(config, request, fileId))
          => /\ Has(resp', "success") /\ ~resp'.success
             /\ Has(resp', "error") /\ resp'.error \in ValidationErrors
             /\ UNCHANGED << table, iss, usedIds, createdIds, signRequested, signed >> ]_vars

\* a call has been rejected for the size of its file while the table holds
\* records
C7_Witness ==
  /\ Has(resp, "error")
  /\ resp.error = "File size exceeds maximum allowed size"
  /\ DOMAIN table # { }


(***************************************************************************)
(* Properties of deleteExpiredPendingFiles (SpecSweep).                    *)
(***************************************************************************)
\* the keys of the records of table t that are PENDING_UPLOAD and expired
\* before the threshold
ExpiredPending(t, expiredBefore) ==
  { k \in DOMAIN t : /\ t[k].status = "PENDING_UPLOAD"
                     /\ t[k].expiresAt < expiredBefore }

\* C5: on a table with no other writer, in which every PENDING_UPLOAD
\* record has expiresAt, deleteExpiredPendingFiles(T) deletes exactly the
\* PENDING_UPLOAD records with expiresAt < T and leaves every other record,
\* whatever its status or expiresAt, as it was
C5_SweepSelectivity ==
  sw.pc = "returned"
  => LET expired == ExpiredPending(sw.before, sw.expiredBefore)
     IN /\ DOMAIN table = DOMAIN sw.before \ expired
        /\ \A k \in DOMAIN table : table[k] = sw.before[k]

\* a sweep has returned after deleting a record, and has left both an
\* UPLOADED record whose expiresAt is before the threshold and a
\* PENDING_UPLOAD record whose expiresAt is not
C5_Witness ==
  /\ sw.pc = "returned"
  /\ ExpiredPending(sw.before, sw.expiredBefore) # { }
  /\ \E k \in DOMAIN table :
       table[k].status = "UPLOADED" /\ table[k].expiresAt < sw.expiredBefore
  /\ \E k \in DOMAIN table :
       table[k].status = "PENDING_UPLOAD" /\ table[k].expiresAt >= sw.expiredBefore


(***************************************************************************)
(* Properties of listFiles (SpecList).                                     *)
(***************************************************************************)
\* the fileIds of the records of the owner the client lists
OwnedFileIds == { i.fileId : i \in { j \in Items(table) : j.userId = li.userId } }

\* C10: on an unchanging table, listing an owner's files with a limit of at
\* least 1 and following nextCursor until it is absent returns every record
\* of the owner exactly once and no record of another owner, and ends after
\* at most n \div limit + 1 calls for n records
C10_PaginationComplete ==
  li.pc \in { "paging", "done" }
  => /\ \A j \in 1..Len(li.files) : li.files[j].userId = li.userId
     /\ \A a, b \in 1..Len(li.files) : a # b => li.files[a] # li.files[b]
     /\ li.calls <= (Cardinality(OwnedFileIds) \div li.limit) + 1
     /\ li.pc = "done"
        => { li.files[j].fileId : j \in 1..Len(li.files) } = OwnedFileIds

\* a listing of several pages has ended and has returned more than one
\* file, while the table holds a record of another owner
C10_Witness ==
  /\ li.pc = "done"
  /\ li.calls >= 2
  /\ Len(li.files) >= 2
  /\ \E i \in Items(table) : i.userId # li.userId


(***************************************************************************)
(* The functions without side effect, each applied to inputs drawn from a  *)
(* finite set (SpecPure).  The functions keep no state, so a behaviour      *)
(* evaluates one of them once.                                             *)
(***************************************************************************)
FileTypes == { "pdf", "image" }

\* file names with one extension, without one, with several dots, with a dot
\* at either end, and with a "/" before or after the last dot
KeyFileNames ==
  { << "d", "o", "c", ".", "p", "d", "f" >>, << "d", "o", "c", "u", "m", "e", "n", "t" >>, << "m", "y", ".", "d", "o", "c", "u", "m", "e", "n", "t", ".", "f", "i", "n", "a", "l", ".", "p", "d", "f" >>, << "p", "i", "c", ".", "p", "n", "g" >>,
    << "n", "a", "m", "e", "." >>, << ".", "e", "n", "v" >>, << "a", "/", "b", ".", "p", "d", "f" >>, << "v", "1", ".", "0", "/", "r", "e", "p", "o", "r", "t" >> }

\* generateS3Key(fileType, userId, fileId, fileName), and the handler's two
\* extractors applied to the key
BuildAndParseKey(fileType, userId, fileId, fileName) ==
  LET key == generateS3Key(fileType, userId, fileId, fileName)
  IN /\ pure = NoEvaluation
     /\ pure' = [op |-> "generateS3Key", fileType |-> fileType, userId |-> userId,
                 fileId |-> fileId, fileName |-> fileName, key |-> key,
                 parsedFileId |-> extractFileIdFromKey(key),
                 parsedUserId |-> extractUserIdFromKey(key)]
     /\ UNCHANGED << table, clock, issVars, invVars, sw, li, api >>

KeyIds == FileIds(MaxListed)

\* content types: the allow-list, in either case, and types outside it
PureContentTypes ==
  { << "a", "p", "p", "l", "i", "c", "a", "t", "i", "o", "n", "/", "p", "d", "f" >>, << "A", "P", "P", "L", "I", "C", "A", "T", "I", "O", "N", "/", "P", "D", "F" >>, << "a", "p", "p", "l", "i", "c", "a", "t", "i", "o", "n", "/", "x", "-", "p", "d", "f" >>,
    << "i", "m", "a", "g", "e", "/", "j", "p", "e", "g" >>, << "i", "m", "a", "g", "e", "/", "j", "p", "g" >>, << "i", "m", "a", "g", "e", "/", "p", "n", "g" >>, << "I", "m", "a", "g", "e", "/", "P", "N", "G" >>, << "i", "m", "a", "g", "e", "/", "g", "i", "f" >>,
    << "i", "m", "a", "g", "e", "/", "w", "e", "b", "p" >>, << "i", "m", "a", "g", "e", "/", "s", "v", "g", "+", "x", "m", "l" >>, << "i", "m", "a", "g", "e", "/", "b", "m", "p" >>, << "t", "e", "x", "t", "/", "p", "l", "a", "i", "n" >> }

PureFileNames ==
  { << "d", "o", "c", ".", "p", "d", "f" >>, << "D", "O", "C", ".", "P", "D", "F" >>, << "p", "i", "c", ".", "p", "n", "g" >>, << "p", "h", "o", "t", "o", ".", "J", "P", "E", "G" >>, << "i", "c", "o", "n", ".", "s", "v", "g" >>,
    << "n", "o", "t", "e", "s", ".", "t", "x", "t" >>, << "d", "o", "c", "u", "m", "e", "n", "t" >>, << "p", "d", "f" >> }

\* sizes: nothing, an ordinary size, and each ceiling with the byte after it
PureSizes ==
  { 0, 1048576, MAX_IMAGE_SIZE_BYTES, MAX_IMAGE_SIZE_BYTES + 1,
    MAX_PDF_SIZE_BYTES, MAX_PDF_SIZE_BYTES + 1 }

PureRequests ==
  { [fileName |-> fileName, contentType |-> contentType, size |-> size] :
      fileName \in PureFileNames, contentType \in PureContentTypes,
      size \in PureSizes }

SizeValidatorConfigs ==
  { [maxSizeBytes |-> n] : n \in { 0, MAX_IMAGE_SIZE_BYTES, MAX_PDF_SIZE_BYTES } }

\* FileTypeDetector.detect(contentType, fileName), on the arguments as given
\* and on their lower-case forms
Detect(contentType, fileName) ==
  /\ pure = NoEvaluation
  /\ pure' = [op |-> "detect", contentType |-> contentType, fileName |-> fileName,
              result |-> detect(contentType, fileName),
              lowered |-> detect(ToLowerCase(contentType), ToLowerCase(fileName))]
  /\ UNCHANGED << table, clock, issVars, invVars, sw, li, api >>

\* the checks generateUploadUrl makes before it writes anything
ValidateUpload(request) ==
  /\ pure = NoEvaluation
  /\ pure' = [op |-> "validateUpload", request |-> request,
              fileType |-> detect(request.contentType, request.fileName),
              result |-> validateUpload(request)]
  /\ UNCHANGED << table, clock, issVars, invVars, sw, li, api >>

\* new ValidateFileSize(config).validate(request)
ValidateSize(config, request) ==
  /\ pure = NoEvaluation
  /\ pure' = [op |-> "ValidateFileSize", config |-> config, request |-> request,
              result |-> ValidateFileSize(config, request)]
  /\ UNCHANGED << table, clock, issVars, invVars, sw, li, api >>

\* the TFile values createFile can be given: every status, with and
\* without expiresAt (at and around a whole second), with and without
\* uploadedAt and the two timestamps
FileStatuses == { "PENDING_UPLOAD", "UPLOADED", "FAILED", "DELETED" }

ExpiresAtValues == { 300000, 300001, 300500, 300999, 301000, Now(1) + 300000 }

BaseFile(status) ==
  [fileId |-> << "f", "1" >>, userId |-> << "u", "1" >>,
   fileName |-> << "d", "o", "c", ".", "p", "d", "f" >>,
   mimeType |-> ALLOWED_PDF_TYPES[1], sizeBytes |-> 1048576, status |-> status,
   s3Bucket |-> bucketName,
   s3Key |-> generateS3Key("pdf", << "u", "1" >>, << "f", "1" >>,
                           << "d", "o", "c", ".", "p", "d", "f" >>)]

With(r, extra) == [a \in DOMAIN r \cup DOMAIN extra |-> IF a \in DOMAIN extra THEN extra[a] ELSE r[a]]

PureFiles ==
  LET bases == { BaseFile(status) : status \in FileStatuses }
      stamped == bases \cup { With(f, [createdAt |-> Now(1), updatedAt |-> Now(1)]) : f \in bases }
      uploaded == stamped \cup { With(f, [uploadedAt |-> Now(1)]) : f \in stamped }
  IN uploaded \cup { With(f, [expiresAt |-> e]) : f \in uploaded, e \in ExpiresAtValues }

\* createFile(file) on the empty table
CreateFile(file) ==
  /\ pure = NoEvaluation
  /\ \E c \in 0..MaxClock :
        /\ table' = createFile(table, file, Now(c))
        /\ pure' = [op |-> "createFile", file |-> file, now |-> Now(c)]
  /\ UNCHANGED << clock, issVars, invVars, sw, li, api >>

NextPure ==
  \/ \E fileType \in FileTypes, userId \in Owners, fileId \in KeyIds,
        fileName \in KeyFileNames :
          BuildAndParseKey(fileType, userId, fileId, fileName)
  \/ \E contentType \in PureContentTypes, fileName \in PureFileNames :
          Detect(contentType, fileName)
  \/ \E request \in PureRequests : ValidateUpload(request)
  \/ \E config \in SizeValidatorConfigs, request \in PureRequests :
          ValidateSize(config, request)
  \/ \E file \in PureFiles : CreateFile(file)

SpecPure == Init /\ [][NextPure]_vars

\* C11: for every key generateS3Key builds for (type, ownerId, fileId,
\* fileName), whatever the file name, extractFileIdFromKey returns the
\* fileId and extractUserIdFromKey returns the ownerId
C11_KeyRoundTrip ==
  pure.op = "generateS3Key"
  => /\ pure.parsedFileId = pure.fileId
     /\ pure.parsedUserId = pure.userId


\* C12: the size check accepts a size equal to the ceiling and rejects the
\* byte after it.  An upload that passes the type checks is accepted by the
\* issuer exactly when its size is at most 10,485,760 bytes for a PDF and
\* 5,242,880 bytes for an image; ValidateFileSize accepts exactly the sizes
\* that are at most maxSizeBytes, 0 included.
C12_SizeBoundary ==
  /\ ( /\ pure.op = "validateUpload"
       /\ pure.fileType \in { "pdf", "image" }
       /\ \E i \in 1..Len(allowedTypes) :
            ToLowerCase(pure.request.contentType) = allowedTypes[i] )
     => ( pure.result.ok
          <=> pure.request.size <= (IF pure.fileType = "pdf" THEN 10485760
                                    ELSE 5242880) )
  /\ pure.op = "ValidateFileSize"
     => ( pure.result.valid <=> pure.request.size <= pure.config.maxSizeBytes )

\* the issuer has accepted a PDF of exactly 10,485,760 bytes
C12_Witness ==
  /\ pure.op = "validateUpload"
  /\ pure.fileType = "pdf"
  /\ pure.request.size = 10485760
  /\ pure.result.ok


\* the MIME types the issuer supports
SupportedMimeTypes ==
  { << "a", "p", "p", "l", "i", "c", "a", "t", "i", "o", "n", "/", "p", "d", "f" >>, << "i", "m", "a", "g", "e", "/", "j", "p", "e", "g" >>, << "i", "m", "a", "g", "e", "/", "j", "p", "g" >>, << "i", "m", "a", "g", "e", "/", "p", "n", "g" >>,
    << "i", "m", "a", "g", "e", "/", "g", "i", "f" >>, << "i", "m", "a", "g", "e", "/", "w", "e", "b", "p" >> }

\* C13: generateUploadUrl accepts a request only if its classified type is
\* pdf or image and its MIME type in lower case is one of application/pdf,
\* image/jpeg, image/jpg, image/png, image/gif, image/webp; a request whose
\* classified type is unknown is rejected whatever its size
C13_AcceptsOnlySupportedTypes ==
  pure.op = "validateUpload"
  => /\ pure.result.ok
        => /\ pure.fileType \in { "pdf", "image" }
           /\ ToLowerCase(pure.request.contentType) \in SupportedMimeTypes
     /\ pure.fileType = "unknown" => ~pure.result.ok

\* a request whose MIME type is written in upper case has been accepted
C13_Witness ==
  /\ pure.op = "validateUpload"
  /\ pure.request.contentType # ToLowerCase(pure.request.contentType)
  /\ pure.result.ok

\* C14: detect(mimeType, fileName) returns one of pdf, image, unknown, the
\* same for every spelling of the letter case: pdf if and only if the MIME
\* type contains "pdf" or the file name ends in ".pdf"; otherwise image if
\* and only if the MIME type starts with "image/" or the file name ends in
\* .jpg, .jpeg, .png, .gif, .webp or .svg; otherwise unknown
C14_DetectClassification ==
  pure.op = "detect"
  => LET mimeType == ToLowerCase(pure.contentType)
         fileName == ToLowerCase(pure.fileName)
         isPdf == Includes(mimeType, << "p", "d", "f" >>) \/ EndsWith(fileName, << ".", "p", "d", "f" >>)
         isImage == \/ StartsWith(mimeType, << "i", "m", "a", "g", "e", "/" >>)
                    \/ \E e \in { << ".", "j", "p", "g" >>, << ".", "j", "p", "e", "g" >>, << ".", "p", "n", "g" >>, << ".", "g", "i", "f" >>,
                                   << ".", "w", "e", "b", "p" >>, << ".", "s", "v", "g" >> } : EndsWith(fileName, e)
     IN /\ pure.result \in { "pdf", "image", "unknown" }
        /\ pure.result = pure.lowered
        /\ pure.result = "pdf" <=> isPdf
        /\ pure.result = "image" <=> (~isPdf /\ isImage)
        /\ pure.result = "unknown" <=> (~isPdf /\ ~isImage)

\* a file named in upper case, with a MIME type that tells nothing, has been
\* classified by its extension
C14_Witness ==
  /\ pure.op = "detect"
  /\ pure.contentType = << "t", "e", "x", "t", "/", "p", "l", "a", "i", "n" >>
  /\ pure.fileName = << "D", "O", "C", ".", "P", "D", "F" >>
  /\ pure.result = "pdf"


\* C15: the updatedAt of a record never decreases, whatever createFile and
\* updateFile calls are applied to it, concurrent updateFile calls included
C15_UpdatedAtNeverDecreases ==
  [][ \A k \in DOMAIN table \cap DOMAIN table' :
        table'[k].updatedAt >= table[k].updatedAt ]_vars


(***************************************************************************)
(* Properties of the API over the days (SpecApi).                          *)
(***************************************************************************)
\* C16: once the event of an issued upload (doc.pdf, application/pdf,
\* 1048576 bytes) has been processed and its record is UPLOADED, every
\* lookup of the file by its id made from then on answers with status
\* UPLOADED
C16_UploadedFromThenOn ==
  (Has(api, "pc") /\ api.pc = "done" /\ api.wasUploaded)
  => /\ api.code = 200
     /\ Has(api.body, "status") /\ api.body.status = "UPLOADED"


\* the file an answered lookup has found, NullFile if none
Looked ==
  IF api.byId # NullFile THEN api.byId
  ELSE IF Has(api, "byUser") THEN api.byUser ELSE NullFile

\* C18: getFile and getFileById return null when no record matches; GET
\* /v1/files/{fileId} answers 404 with the error "File not found" exactly
\* when getFileById(fileId) and getFile(fileId, default user) both returned
\* null, and otherwise 200 with the status of the record it read
C18_NotFoundIffBothNull ==
  /\ \A fileId \in RouteIds :
       /\ NullFile \in getFileById(table, fileId)
            <=> ~\E k \in DOMAIN table :
                    Has(table[k], "fileId") /\ table[k].fileId = fileId
       /\ \A userId \in Owners :
            getFile(table, fileId, userId) = NullFile
              <=> << PKOf(userId), SKOf(fileId) >> \notin DOMAIN table
  /\ (Has(api, "pc") /\ api.pc = "done")
     => /\ api.code \in { 200, 404 }
        /\ api.code = 404
             <=> /\ api.byId = NullFile
                 /\ Has(api, "byUser") /\ api.byUser = NullFile
        /\ api.code = 404 => api.body = [success |-> FALSE, error |-> "File not found"]
        /\ api.code = 200
             => /\ api.body.success
                /\ api.body.status = Looked.status

\* a lookup has been answered 200 from getFile(fileId, default user) after
\* getFileById had found nothing
C18_Witness ==
  /\ Has(api, "pc") /\ api.pc = "done"
  /\ api.byId = NullFile
  /\ api.code = 200


(***************************************************************************)
(* Failures of the issuer (SpecIssue).                                     *)
(***************************************************************************)
\* the result of a failed call: no exception, no fileId, no uploadUrl, and
\* an error text with the fixed words and the message of what was thrown
FailureOf(thrown, result) ==
  /\ Has(result, "success") /\ ~result.success
  /\ ~Has(result, "fileId") /\ ~Has(result, "uploadUrl")
  /\ Has(result, "text")
  /\ Includes(result.text, << "F", "a", "i", "l", "e", "d", " ", "t", "o", " ", "g", "e", "n", "e", "r", "a", "t", "e", " ", "u", "p", "l", "o", "a", "d", " ", "U", "R", "L" >>)
  /\ thrown.isError => Includes(result.text, thrown.message)

\* C17: generateUploadUrl never throws: when createFile or the generation of
\* the signed URL fails, the call returns success = false with an error text
\* that contains "Failed to generate upload URL" and the message of the
\* underlying error, and returns neither a fileId nor an uploadUrl
C17_FailureIsReturned ==
  [][ \A thrown \in ThrownValues :
        /\ GenerateUploadUrlSignFails(thrown) => FailureOf(thrown, resp')
        /\ \A config \in Configs(Owners) : \A request \in Requests :
             \A fileId \in FileIds(MaxIssues) :
               GenerateUploadUrlCreateFails(config, request, fileId, thrown)
               => FailureOf(thrown, resp') ]_vars

\* the generation of the signed URL has failed after the record was written
C17_Witness ==
  /\ Has(resp, "text")
  /\ resp.text = << "F", "a", "i", "l", "e", "d", " ", "t", "o", " ", "g", "e", "n", "e", "r", "a", "t", "e", " ", "u", "p", "l", "o", "a", "d", " ", "U", "R", "L", ":", " ", "a", "c", "c", "e", "s", "s", " ", "d", "e", "n", "i", "e", "d" >>
  /\ iss.pc = "idle"
  /\ createdIds # { } /\ signed = { }


(***************************************************************************)
(* Cursors that do not parse (SpecCursor).                                 *)
(***************************************************************************)
\* C19: listFiles called with a cursor that is not the base64 of a JSON text
\* does not fail: it queries without a start key and returns the first
\* page, as if no cursor had been given
C19_BadCursorIsFirstPage ==
  [][ \A userId \in Owners : \A limit \in 1..MaxLimit : \A cursor \in BadCursors :
        ListFilesCursor(userId, limit, cursor)
        => /\ decodeCursor(cursor) = NoKey
           /\ api'.result = listFiles(table, userId, limit, NoCursor)
           /\ api'.result.files
                = [j \in 1..Len(api'.result.files) |->
                     ToFile(DescendingBySK({ i \in Items(table) : i.PK = PKOf(userId) })[j])] ]_vars

\* a listing with a bad cursor has returned the first page of a partition
\* that has more files than the page
C19_Witness ==
  /\ api.op = "listFiles"
  /\ api.cursor \in BadCursors
  /\ Len(api.result.files) = api.limit
  /\ api.result.nextCursor # NoCursor
  /\ Cardinality({ i \in Items(table) : i.PK = PKOf(api.userId) }) > api.limit


(***************************************************************************)
(* Failing deletes (SpecSweepFaults).                                      *)
(***************************************************************************)
\* C20: a DeleteCommand that fails during deleteExpiredPendingFiles does not
\* end the sweep: the call returns, every other selected record has been
\* deleted, the record whose delete failed is as it was, and the count
\* returned is the number of deletes that succeeded
C20_FailedDeleteDoesNotAbort ==
  sw.pc = "returned"
  => LET selected == ExpiredPending(sw.before, sw.expiredBefore)
     IN /\ sw.failed \subseteq selected
        /\ DOMAIN table = DOMAIN sw.before \ (selected \ sw.failed)
        /\ \A k \in DOMAIN table : table[k] = sw.before[k]
        /\ sw.deletedCount = Cardinality(selected) - Cardinality(sw.failed)
        /\ sw.deletedCount = Cardinality(DOMAIN sw.before \ DOMAIN table)

\* a sweep has returned after the delete of one selected record failed and
\* the delete of another succeeded
C20_Witness ==
  /\ sw.pc = "returned"
  /\ sw.failed # { }
  /\ sw.deletedCount >= 1
  /\ Cardinality(ExpiredPending(sw.before, sw.expiredBefore)) >= 2


(***************************************************************************)
(* The handler on every kind of event, with records in every status.       *)
(* TFileStatus has the values FAILED and DELETED besides PENDING_UPLOAD    *)
(* and UPLOADED; a record comes to hold one of them through the            *)
(* repository's updateFile, called here by a client of the repository.     *)
(***************************************************************************)
\* a key whose owner segment is not the owner of the file, a key of six
\* segments under another prefix, a key whose last segment has no ".",
\* and events of other types, one with a key that is not valid encoding
MismatchedOwnerEvent == PutEvent(<< "p", "d", "f", "/", "u", "2", "/", "2", "0", "2", "6", "/", "1", "1", "/", "0", "1", "/", "f", "1", ".", "p", "d", "f" >>)
BadPrefixEvent == PutEvent(<< "u", "p", "l", "o", "a", "d", "s", "/", "u", "1", "/", "2", "0", "2", "6", "/", "1", "1", "/", "0", "1", "/", "f", "1", ".", "p", "d", "f" >>)
NoExtensionEvent == PutEvent(<< "p", "d", "f", "/", "u", "1", "/", "2", "0", "2", "6", "/", "1", "1", "/", "0", "1", "/", "f", "1" >>)
RemovedEvent == [eventName |-> "ObjectRemoved:Delete", key |-> << "p", "d", "f", "/", "u", "1", "/", "2", "0", "2", "6", "/", "1", "1", "/", "0", "1", "/", "f", "1", ".", "p", "d", "f" >>]
CopyBadEncodingEvent == [eventName |-> "ObjectCreated:Copy", key |-> << "p", "d", "f", "/", "u", "1", "/", "%" >>]

EventCases ==
  { MismatchedOwnerEvent, BadPrefixEvent, NoExtensionEvent, ShortKeyEvent,
    NoRecordEvent, CopyEvent, RemovedEvent, CopyBadEncodingEvent }

\* the updates a caller of updateFile can pass (Partial<TFile>): none, a
\* status, several fields at once, and fields updateFile does not write
UpdateCases ==
  { [x \in { } |-> 0],
    [status |-> "FAILED"],
    [status |-> "DELETED"],
    [status |-> "UPLOADED", uploadedAt |-> Now(1)],
    [fileName |-> << "n", "e", "w", ".", "p", "d", "f" >>],
    [mimeType |-> << "i", "m", "a", "g", "e", "/", "p", "n", "g" >>, sizeBytes |-> 7],
    [s3Bucket |-> << "o", "t", "h", "e", "r" >>, s3Key |-> << "p", "d", "f", "/", "u", "1", "/", "2", "0", "2", "6", "/", "1", "1", "/", "0", "1", "/", "x", ".", "p", "d", "f" >>],
    [fileName |-> << "n", "e", "w", ".", "p", "d", "f" >>, createdAt |-> Now(1), userId |-> << "u", "9" >>] }

\* updateFile(fileId, userId, updates) called directly; its one
\* UpdateCommand carries the updatedAt taken when the call was made
RepositoryUpdateFile(fileId, userId, updates) ==
  /\ pure = NoEvaluation
  /\ \E c \in 0..clock :
        /\ table' = updateFile(table, fileId, userId, updates, Now(c))
        /\ pure' = [op |-> "updateFile", fileId |-> fileId, userId |-> userId,
                    updates |-> updates, now |-> Now(c)]
  /\ UNCHANGED << api, clock, issVars, invVars, sw, li >>

NextEvents ==
  \/ Tick
  \/ Issuer(DefaultUser, ApiRequests, FreshIds(MaxIssues))
  \/ \E fileId \in RouteIds, userId \in Owners, updates \in UpdateCases :
        RepositoryUpdateFile(fileId, userId, updates)
  \/ Reconciler(OneInvocation, EventCases, 1)

SpecEvents == Init /\ [][NextEvents]_vars

\* issuances, events and sweeps in any interleaving
NextLifecycle ==
  \/ Tick
  \/ Issuer(DefaultUser, ApiRequests, FreshIds(MaxIssues))
  \/ Reconciler(Invocations, NoForeignEvents, 1)
  \/ Sweeper

SpecLifecycle == Init /\ [][NextLifecycle]_vars


(***************************************************************************)
(* C21: the reconciler sends updateFile only when the record it read is    *)
(* PENDING_UPLOAD, and that write sets status = UPLOADED, uploadedAt and   *)
(* updatedAt and nothing else; whatever the interleaving of issuances,     *)
(* events and sweeps, no record goes from UPLOADED to another status and   *)
(* no status other than PENDING_UPLOAD and UPLOADED ever appears.          *)
(***************************************************************************)
C21_OnlyPendingToUploaded ==
  [][ /\ \A i \in Invocations :
            (inv[i].pc # "updateFile" /\ inv'[i].pc = "updateFile") =>
               \E k \in DOMAIN table :
                  /\ table[k].SK = SKOf(inv'[i].call.fileId)
                  /\ Has(table[k], "userId")
                  /\ table[k].userId = inv'[i].call.userId
                  /\ table[k].status = "PENDING_UPLOAD"
      /\ updateLog' # updateLog =>
            /\ Len(updateLog') = Len(updateLog) + 1
            /\ LET w == updateLog'[Len(updateLog')]
               IN /\ DOMAIN w.sets = { "status", "uploadedAt", "updatedAt" }
                  /\ w.sets.status = "UPLOADED"
                  /\ w.sets.uploadedAt = inv[w.by].call.uploadedAt
      /\ \A k \in DOMAIN table \cap DOMAIN table' :
            /\ table[k].status = "UPLOADED" => table'[k].status = "UPLOADED"
            /\ table'[k].status # table[k].status =>
                  /\ updateLog' # updateLog
                  /\ \A a \in DOMAIN table[k] \ { "status", "uploadedAt", "updatedAt" } :
                        table'[k][a] = table[k][a]
      /\ \A k \in DOMAIN table' : table'[k].status \in { "PENDING_UPLOAD", "UPLOADED" }
    ]_vars

\* a record was moved to UPLOADED by the handler and a sweep has deleted
\* another one
C21_Witness ==
  /\ updateLog # << >>
  /\ \E k \in DOMAIN table : table[k].status = "UPLOADED"
  /\ sw.pc = "returned"
  /\ sw.deletedCount > 0


(***************************************************************************)
(* C22: the handler's updateFile is keyed by the userId of the record it   *)
(* resolved, not by the owner segment of the object key: the write goes to *)
(* the existing item (USER#record.userId, FILE#fileId), and for a key      *)
(* whose owner segment differs from the record's userId no item comes into *)
(* existence under the parsed owner.                                       *)
(***************************************************************************)
ParsedOwner(r) ==
  extractUserIdFromKey(decodeURIComponent(ReplacePlus(r.batch[r.idx].key)))

C22_WriteKeyedByRecordOwner ==
  [][ updateLog' # updateLog =>
        LET w == updateLog'[Len(updateLog')]
            r == inv[w.by]
            k == << w.PK, w.SK >>
        IN /\ w.SK = SKOf(r.call.fileId)
           /\ k \in DOMAIN table
           /\ Has(table[k], "userId")
           /\ w.PK = PKOf(table[k].userId)
           /\ DOMAIN table' = DOMAIN table
           /\ \A j \in DOMAIN table : j # k => table'[j] = table[j]
           /\ ParsedOwner(r) # table[k].userId =>
                 (<< PKOf(ParsedOwner(r)), w.SK >> \in DOMAIN table'
                    => << PKOf(ParsedOwner(r)), w.SK >> \in DOMAIN table)
    ]_vars

\* the event with the owner segment u2 has moved the record of u1 to
\* UPLOADED, and u2 has no item for the file
C22_Witness ==
  /\ inv[1].pc = "done"
  /\ inv[1].batch = << MismatchedOwnerEvent >>
  /\ Len(updateLog) = 1
  /\ updateLog[1].PK = PKOf(<< "u", "1" >>)
  /\ << PKOf(<< "u", "1" >>), SKOf(<< "f", "1" >>) >> \in DOMAIN table
  /\ table[<< PKOf(<< "u", "1" >>), SKOf(<< "f", "1" >>) >>].status = "UPLOADED"
  /\ << PKOf(<< "u", "2" >>), SKOf(<< "f", "1" >>) >> \notin DOMAIN table


(***************************************************************************)
(* C23: an ObjectCreated:Put event whose record is found neither by        *)
(* getFileById(fileId) nor by getFile(fileId, parsedOwner), or whose       *)
(* record has a status other than PENDING_UPLOAD and UPLOADED, is recorded *)
(* as failed; no updateFile call is made and the table is unchanged.       *)
(***************************************************************************)
StatusOf(file) == IF Has(file, "status") THEN file.status ELSE "undefined"

\* the lookup that answers in this step finds nothing, or finds a record
\* in another status
NothingToReconcile(r) ==
  LET key == decodeURIComponent(ReplacePlus(r.batch[r.idx].key))
      fileId == extractFileIdFromKey(key)
  IN \/ /\ r.pc = "loop"
        /\ r.idx <= Len(r.batch)
        /\ key # URIError
        /\ r.batch[r.idx].eventName = "ObjectCreated:Put"
        /\ ~Falsy(fileId)
        /\ ~Falsy(extractUserIdFromKey(key))
        /\ FileIdIndex(table, fileId) # { }
        /\ \A item \in FileIdIndex(table, fileId) :
              StatusOf(item) \notin { "PENDING_UPLOAD", "UPLOADED" }
     \/ /\ r.pc = "getFile"
        /\ LET existingFile == getFile(table, r.call.fileId, r.call.userId)
           IN \/ existingFile = NullFile
              \/ StatusOf(existingFile) \notin { "PENDING_UPLOAD", "UPLOADED" }

C23_UnreconcilableIsFailure ==
  [][ \A i \in Invocations :
        (NothingToReconcile(inv[i]) /\ inv'[i] # inv[i]) =>
           /\ inv'[i].pc = "loop"
           /\ inv'[i].idx = inv[i].idx + 1
           /\ inv'[i].results = Append(inv[i].results, FALSE)
           /\ updateLog' = updateLog
           /\ table' = table
    ]_vars

\* the event of a signed upload whose record is FAILED has been recorded as
\* a failure, and the event of a file without record as well
C23_Witness ==
  /\ inv[1].pc = "done"
  /\ inv[1].results = << FALSE >>
  /\ inv[1].reads = 1
  /\ updateLog = << >>
  /\ \E s \in signed :
        /\ inv[1].batch = << PutEvent(S3EncodeKey(s.key)) >>
        /\ \E k \in DOMAIN table :
              /\ Has(table[k], "fileId")
              /\ table[k].s3Key = s.key
              /\ table[k].status \in { "FAILED", "DELETED" }

C23_WitnessNotFound ==
  /\ inv[1].pc = "done"
  /\ inv[1].results = << FALSE >>
  /\ inv[1].reads = 2
  /\ inv[1].batch = << NoRecordEvent >>


(***************************************************************************)
(* C24: an event whose eventName is not 'ObjectCreated:Put' is recorded as *)
(* a success, whatever its key, and the handler sends no lookup and no     *)
(* write to the repository for it.                                         *)
(***************************************************************************)
OtherEventNext(r) ==
  /\ r.pc = "loop"
  /\ r.idx <= Len(r.batch)
  /\ r.batch[r.idx].eventName # "ObjectCreated:Put"

C24_OtherEventIsSkipped ==
  [][ \A i \in Invocations :
        (OtherEventNext(inv[i]) /\ inv'[i] # inv[i]) =>
           /\ inv'[i].pc = "loop"
           /\ inv'[i].idx = inv[i].idx + 1
           /\ inv'[i].results = Append(inv[i].results, TRUE)
           /\ inv'[i].reads = inv[i].reads
           /\ updateLog' = updateLog
           /\ table' = table
    ]_vars


(***************************************************************************)
(* C25: an ObjectCreated:Put event whose decoded key has fewer than six    *)
(* segments between "/", or a first segment other than pdf and images, or  *)
(* a last segment without ".", is recorded as failed, and the handler      *)
(* sends no lookup and no write to the repository for it.                  *)
(***************************************************************************)
OutsideLayout(key) ==
  LET parts == Split(key, "/")
  IN \/ Len(parts) < 6
     \/ parts[1] \notin { << "p", "d", "f" >>, << "i", "m", "a", "g", "e", "s" >> }
     \/ ~Includes(parts[Len(parts)], << "." >>)

MalformedPutNext(r) ==
  /\ r.pc = "loop"
  /\ r.idx <= Len(r.batch)
  /\ r.batch[r.idx].eventName = "ObjectCreated:Put"
  /\ decodeURIComponent(ReplacePlus(r.batch[r.idx].key)) # URIError
  /\ OutsideLayout(decodeURIComponent(ReplacePlus(r.batch[r.idx].key)))

C25_MalformedKeyIsFailure ==
  [][ \A i \in Invocations :
        (MalformedPutNext(inv[i]) /\ inv'[i] # inv[i]) =>
           /\ inv'[i].pc = "loop"
           /\ inv'[i].idx = inv[i].idx + 1
           /\ inv'[i].results = Append(inv[i].results, FALSE)
           /\ inv'[i].reads = inv[i].reads
           /\ updateLog' = updateLog
           /\ table' = table
    ]_vars

\* the event with a key of six segments under the prefix uploads/, naming
\* an existing PENDING_UPLOAD record, has been recorded as a failure
C25_Witness ==
  /\ inv[1].pc = "done"
  /\ inv[1].batch = << BadPrefixEvent >>
  /\ inv[1].results = << FALSE >>
  /\ inv[1].reads = 0
  /\ \E k \in DOMAIN table :
        /\ table[k].SK = SKOf(<< "f", "1" >>)
        /\ Has(table[k], "status")
        /\ table[k].status = "PENDING_UPLOAD"

C25_WitnessShort == inv[1].pc = "done" /\ inv[1].batch = << ShortKeyEvent >> /\ inv[1].reads = 0
C25_WitnessNoDot == inv[1].pc = "done" /\ inv[1].batch = << NoExtensionEvent >> /\ inv[1].reads = 0


(***************************************************************************)
(* C26: the item createFile stores has a ttl attribute if and only if the  *)
(* file's status is PENDING_UPLOAD and expiresAt is given, and then        *)
(* ttl = floor((expiresAt in epoch milliseconds + 48 hours) / 1000).       *)
(***************************************************************************)
C26_TtlIffPendingWithExpiry ==
  pure.op = "createFile" =>
    LET file == pure.file
        k == << PKOf(file.userId), SKOf(file.fileId) >>
    IN /\ DOMAIN table = { k }
       /\ Has(table[k], "ttl") <=> (file.status = "PENDING_UPLOAD" /\ Has(file, "expiresAt"))
       /\ Has(table[k], "ttl") =>
             /\ table[k].ttl * 1000 <= file.expiresAt + 48 * 60 * 60 * 1000
             /\ file.expiresAt + 48 * 60 * 60 * 1000 < (table[k].ttl + 1) * 1000
       /\ table[k].status = file.status
       /\ Has(table[k], "expiresAt") <=> Has(file, "expiresAt")

\* a PENDING_UPLOAD file whose expiresAt is not a whole second is stored
\* with the ttl rounded down
C26_Witness ==
  /\ pure.op = "createFile"
  /\ pure.file.status = "PENDING_UPLOAD"
  /\ Has(pure.file, "expiresAt")
  /\ pure.file.expiresAt = 300999
  /\ \E k \in DOMAIN table : Has(table[k], "ttl") /\ table[k].ttl = 173100

C26_WitnessUploaded ==
  /\ pure.op = "createFile"
  /\ pure.file.status = "UPLOADED"
  /\ Has(pure.file, "expiresAt")
  /\ \E k \in DOMAIN table : ~Has(table[k], "ttl")


(***************************************************************************)
(* C27: updateFile(fileId, userId, updates) writes the supplied fields     *)
(* among status, uploadedAt, fileName, mimeType, sizeBytes, s3Bucket and   *)
(* s3Key, and updatedAt = now; it writes even when updates is empty; every *)
(* other attribute of the record (fileId, userId, createdAt and the fields *)
(* not supplied) and every other item is left as it was.                   *)
(***************************************************************************)
C27_UpdateWritesSuppliedFieldsOnly ==
  [][ (pure = NoEvaluation /\ pure'.op = "updateFile") =>
        LET updates == pure'.updates
            written == DOMAIN updates \cap
                         { "status", "uploadedAt", "fileName", "mimeType", "sizeBytes",
                           "s3Bucket", "s3Key" }
            k == << PKOf(pure'.userId), SKOf(pure'.fileId) >>
        IN /\ k \in DOMAIN table'
           /\ \A a \in written : table'[k][a] = updates[a]
           /\ table'[k].updatedAt = pure'.now
           /\ \A j \in DOMAIN table' \ { k } : j \in DOMAIN table /\ table'[j] = table[j]
           /\ k \in DOMAIN table =>
                 /\ DOMAIN table'[k] = DOMAIN table[k] \cup written \cup { "updatedAt" }
                 /\ \A a \in DOMAIN table[k] \ (written \cup { "updatedAt" }) :
                       table'[k][a] = table[k][a]
    ]_vars

\* updateFile with empty updates has written updatedAt on an issued record
\* and nothing else
C27_Witness ==
  /\ pure.op = "updateFile"
  /\ DOMAIN pure.updates = { }
  /\ pure.now = Now(1)
  /\ LET k == << PKOf(pure.userId), SKOf(pure.fileId) >>
     IN /\ k \in DOMAIN table
        /\ Has(table[k], "fileId")
        /\ table[k].createdAt = 0
        /\ table[k].updatedAt = Now(1)
        /\ table[k].status = "PENDING_UPLOAD"

\* updates with fields outside the seven: only fileName has been written
C27_WitnessOtherFields ==
  /\ pure.op = "updateFile"
  /\ Has(pure.updates, "createdAt")
  /\ LET k == << PKOf(pure.userId), SKOf(pure.fileId) >>
     IN /\ k \in DOMAIN table
        /\ Has(table[k], "fileId")
        /\ table[k].userId = << "u", "1" >>
        /\ table[k].createdAt = 0
        /\ table[k].fileName = pure.updates.fileName


(***************************************************************************)
(* C28: the nextCursor of listFiles is the base64 of the JSON text of the  *)
(* query's LastEvaluatedKey (PK, SK); read back as a cursor argument it    *)
(* gives that same key as ExclusiveStartKey (decoding an encoded key gives *)
(* the key, for every key); nextCursor is absent exactly when the query    *)
(* returns no LastEvaluatedKey.                                            *)
(***************************************************************************)
C28_CursorRoundTrip ==
  /\ pure.op = "cursor" =>
        /\ pure.decoded = pure.key
        /\ \A v \in CursorVectors : v.key = pure.key => v.cursor = pure.cursor
  /\ api.op = "listFiles" =>
        LET query == QueryPartition(table, PKOf(api.userId), api.limit,
                                    decodeCursor(api.cursor))
            nextCursor == api.result.nextCursor
        IN /\ nextCursor = NoCursor <=> query.LastEvaluatedKey = NoKey
           /\ nextCursor # NoCursor =>
                 /\ decodeCursor(nextCursor) = query.LastEvaluatedKey
                 /\ \A v \in CursorVectors :
                       v.key = query.LastEvaluatedKey => v.cursor = nextCursor
                 /\ listFiles(table, api.userId, api.limit, nextCursor)
                      = LET rest == QueryPartition(table, PKOf(api.userId), api.limit,
                                                   query.LastEvaluatedKey)
                        IN [files |-> [j \in 1..Len(rest.Items) |-> ToFile(rest.Items[j])],
                            nextCursor |-> IF rest.LastEvaluatedKey = NoKey THEN NoCursor
                                           ELSE encodeCursor(rest.LastEvaluatedKey)]

\* a key with a quote and a backslash has gone through the cursor and back
C28_Witness ==
  /\ pure.op = "cursor"
  /\ pure.key = [PK |-> << "U", "S", "E", "R", "#", "a", "\"", "b" >>,
                 SK |-> << "F", "I", "L", "E", "#", "c", "\\", "d" >>]
  /\ pure.decoded = pure.key
  /\ \E v \in CursorVectors : v.key = pure.key /\ v.cursor = pure.cursor

\* a listing has returned a full page with a nextCursor, and another one an
\* incomplete page without
C28_WitnessNextCursor ==
  /\ api.op = "listFiles"
  /\ api.result.nextCursor # NoCursor
  /\ \E v \in CursorVectors : v.cursor = api.result.nextCursor
  /\ Len(api.result.files) = 2

C28_WitnessNoCursor ==
  /\ api.op = "listFiles"
  /\ api.result.nextCursor = NoCursor
  /\ Len(api.result.files) = 1
  /\ api.limit = 2


(***************************************************************************)
(* C29: listFiles returns an owner's records newest first: in the pages of *)
(* a listing put one after the other, no record comes after a record that  *)
(* was created before it.                                                  *)
(***************************************************************************)
CreatedAtOf(file) ==
  table[<< PKOf(file.userId), SKOf(file.fileId) >>].createdAt

C29_NewestFirst ==
  li.pc \in { "paging", "done" }
  => \A a, b \in 1..Len(li.files) :
        a < b => CreatedAtOf(li.files[a]) >= CreatedAtOf(li.files[b])


(***************************************************************************)
(* FileUploadService.upload: the upload through the service writes the     *)
(* record without expiresAt, sends the object to S3 and then sets the      *)
(* record to UPLOADED.  When PutObject or updateFile throws, the record    *)
(* stays PENDING_UPLOAD without expiresAt.  api holds the call in          *)
(* progress.                                                               *)
(***************************************************************************)
UploadCreate(userId, request, fileId) ==
  LET v == Validation[request]
      now == Now(clock)
      file == Without(newFile(userId, fileId, request, v.fileType, now, 0),
                      { "expiresAt" })
  IN /\ api = NoEvaluation
     /\ v.ok
     /\ fileId \notin usedIds
     /\ usedIds' = usedIds \cup { fileId }
     /\ table' = createFile(table, file, now)
     /\ api' = [op |-> "upload", fileId |-> fileId, userId |-> userId]
     /\ UNCHANGED << pure, clock, iss, resp, createdIds, signRequested, signed,
                     invVars, sw, li >>

\* PutObject has succeeded and the UpdateCommand of updateFile is applied
UploadComplete ==
  /\ api.op = "upload"
  /\ table' = updateFile(table, api.fileId, api.userId,
                         [status |-> "UPLOADED", uploadedAt |-> Now(clock)], Now(clock))
  /\ api' = NoEvaluation
  /\ UNCHANGED << pure, clock, issVars, invVars, sw, li >>

\* PutObject or updateFile throws: the catch block returns the failure
UploadFails ==
  /\ api.op = "upload"
  /\ api' = NoEvaluation
  /\ UNCHANGED << pure, table, clock, issVars, invVars, sw, li >>

Uploader(owners, requests, ids) ==
  \/ \E userId \in owners, request \in requests, fileId \in ids :
        UploadCreate(userId, request, fileId)
  \/ UploadComplete
  \/ UploadFails

\* one deleteExpiredPendingFiles call, with deletes that can fail, on the
\* table that issuances, events and uploads through the service have
\* produced, nothing else running during the call
NextSweepLegacy ==
  \/ /\ sw.pc = "idle"
     /\ \/ Tick
        \/ Issuer(DefaultUser, ApiRequests, FreshIds(MaxSwept))
        \/ Uploader(DefaultUser, ApiRequests, FreshIds(MaxSwept))
        \/ Reconciler(OneInvocation, NoForeignEvents, 1)
  \/ Sweeper
  \/ SweepDeleteFails

SpecSweepLegacy == Init /\ [][NextSweepLegacy]_vars

(***************************************************************************)
(* C30: besides the index query, a deleteExpiredPendingFiles call makes    *)
(* one Scan, limited to 100 items, and deletes from its result only        *)
(* records that are PENDING_UPLOAD and have no expiresAt; the Scan path    *)
(* never deletes a record that has expiresAt or another status, and the    *)
(* deletes it made are part of the count returned.                         *)
(***************************************************************************)
\* the keys of the records of table t that are PENDING_UPLOAD without
\* expiresAt
PendingWithoutExpiry(t) ==
  { k \in DOMAIN t : /\ Has(t[k], "status") /\ t[k].status = "PENDING_UPLOAD"
                     /\ ~Has(t[k], "expiresAt") }

\* the keys the index query selects
PendingExpired(t, expiredBefore) ==
  { k \in DOMAIN t : /\ Has(t[k], "status") /\ t[k].status = "PENDING_UPLOAD"
                     /\ Has(t[k], "expiresAt") /\ t[k].expiresAt < expiredBefore }

C30_WitnessKept ==
  /\ sw.pc = "returned"
  /\ sw.scanned # { }
  /\ \E k \in DOMAIN table :
        /\ table[k].status = "PENDING_UPLOAD" /\ Has(table[k], "expiresAt")
        /\ table[k].expiresAt >= sw.expiredBefore


(***************************************************************************)
(* The lifetime of an issued URL (SpecExpiry).                             *)
(***************************************************************************)
\* the service configurations: no expirationSeconds, or a lifetime in seconds
ExpiryConfigs ==
  { [userId |-> << "u", "1" >>],
    [userId |-> << "u", "1" >>, expirationSeconds |-> 60],
    [userId |-> << "u", "1" >>, expirationSeconds |-> 300],
    [userId |-> << "u", "1" >>, expirationSeconds |-> 600] }

\* generateUploadUrl of a service constructed with one of the configurations
IssuerConfigured(configs, requests, ids) ==
  \/ \E config \in configs, request \in requests, fileId \in ids :
        GenerateUploadUrlCreate(config, request, fileId)
  \/ GenerateUploadUrlSigned

NextExpiry ==
  \/ Tick
  \/ IssuerConfigured(ExpiryConfigs, Requests, FreshIds(MaxIssues))

SpecExpiry == Init /\ [][NextExpiry]_vars

\* what the configuration asks for: its expirationSeconds, or 300 without one
ConfiguredLifetime(config) ==
  IF Has(config, "expirationSeconds") THEN config.expirationSeconds ELSE 300

\* C31: an accepted generateUploadUrl call works with the configured
\* expirationSeconds, or 300 when none is configured: the record it writes
\* expires at the time of the call plus that many seconds, the signed URL is
\* requested with that many seconds as its lifetime, and the successful
\* result returns that number as expiresIn and, as expiresAt, the expiresAt
\* of the stored record
C31_LifetimeIsConfiguredOrDefault ==
  [][ /\ \A config \in ExpiryConfigs : \A request \in Requests :
           \A fileId \in FileIds(MaxIssues) :
             ( GenerateUploadUrlCreate(config, request, fileId)
               /\ Validation[request].ok )
             => LET created == table'[RecordOf(config.userId, fileId)]
                IN /\ created.expiresAt
                        = Now(clock) + ConfiguredLifetime(config) * 1000
                   /\ created.expiresAt
                        = created.createdAt + ConfiguredLifetime(config) * 1000
                   /\ iss'.options.expiresIn = ConfiguredLifetime(config)
      /\ GenerateUploadUrlSigned
         => LET stored == table[RecordOf(iss.file.userId, iss.file.fileId)]
            IN /\ resp'.success
               /\ resp'.expiresIn = iss.options.expiresIn
               /\ resp'.expiresAt = stored.expiresAt
               /\ resp'.expiresAt = stored.createdAt + resp'.expiresIn * 1000
               /\ table'[RecordOf(iss.file.userId, iss.file.fileId)] = stored ]_vars

\* a call made at time 150500 by a service configured with 600 seconds has
\* returned, after one made by a service without a configured lifetime
C31_Witness ==
  /\ Has(resp, "success") /\ resp.success
  /\ resp.expiresIn = 600
  /\ resp.expiresAt = 750500
  /\ \E k \in DOMAIN table :
       /\ table[k].fileId = resp.fileId
       /\ table[k].expiresAt = 750500
  /\ \E k \in DOMAIN table :
       /\ table[k].createdAt = 0
       /\ table[k].expiresAt = 300000


(***************************************************************************)
(* One invocation of the handler run from its first record to its end with *)
(* nothing else touching the table (SpecBatch).                            *)
(***************************************************************************)
\* the handler's loop from record r.idx on, every repository call answered
\* before the next statement: the table, the invocation and the log of
\* updates at the end.  getFileById may answer with any of the items of the
\* index, hence a set of ends.
RECURSIVE RunRecords(_, _, _, _)
RunRecords(t, r, log, now) ==
  IF r.idx > Len(r.batch)
  THEN LET failureCount == Cardinality({ j \in 1..Len(r.results) : ~r.results[j] })
       IN { [table |-> t, log |-> log,
             r |-> [r EXCEPT !.pc = "done",
                      !.outcome = IF failureCount > 0 THEN "Error" ELSE "returned"]] }
  ELSE
    LET record == r.batch[r.idx]
        key == decodeURIComponent(ReplacePlus(record.key))
        fileId == extractFileIdFromKey(key)
        userId == extractUserIdFromKey(key)
        Written(after) ==
          LET updates == [status |-> "UPLOADED", uploadedAt |-> after.call.uploadedAt]
          IN IF after.pc = "updateFile"
             THEN RunRecords(
                    updateFile(t, after.call.fileId, after.call.userId, updates,
                               after.call.uploadedAt),
                    Push(after, TRUE),
                    Append(log, [PK |-> PKOf(after.call.userId),
                                 SK |-> SKOf(after.call.fileId), by |-> 1,
                                 sets |-> updateFileSets(updates, after.call.uploadedAt)]),
                    now)
             ELSE RunRecords(t, after, log, now)
    IN IF key = URIError
       THEN { [table |-> t, log |-> log,
               r |-> [r EXCEPT !.pc = "done", !.outcome = "URIError"]] }
       ELSE IF record.eventName # "ObjectCreated:Put"
       THEN RunRecords(t, Push(r, TRUE), log, now)
       ELSE IF Falsy(fileId) \/ Falsy(userId)
       THEN RunRecords(t, Push(r, FALSE), log, now)
       ELSE UNION {
              IF existingFile # NullFile
              THEN Written(afterLookup([r EXCEPT !.reads = r.reads + 1], fileId,
                                       existingFile, now))
              ELSE LET fallback == getFile(t, fileId, userId)
                       looked == [r EXCEPT !.reads = r.reads + 2]
                   IN IF fallback = NullFile
                      THEN RunRecords(t, Push(looked, FALSE), log, now)
                      ELSE Written(afterLookup(looked, fileId, fallback, now))
              : existingFile \in getFileById(t, fileId) }

\* handler(event) on the table t
RunBatch(t, batch, log, now) ==
  RunRecords(t, [InvIdle EXCEPT !.pc = "loop", !.batch = batch, !.idx = 1], log, now)

\* a whole invocation as one step
HandlerRun(i, batch) ==
  /\ inv[i].pc = "idle"
  /\ \E end \in RunBatch(table, batch, updateLog, Now(clock)) :
       /\ table' = end.table
       /\ updateLog' = end.log
       /\ inv' = [inv EXCEPT ![i] = end.r]
  /\ UNCHANGED << pure, api, clock, issVars, sw, li >>

\* the events of the batches besides those of signed uploads
BatchCases ==
  { BadEncodingEvent, MismatchedOwnerEvent, NoRecordEvent, ShortKeyEvent, CopyEvent }

BatchRunner(foreign, maxLen) ==
  \E batch \in Batches(foreign, maxLen) : HandlerRun(1, batch)

NextBatch ==
  \/ Tick
  \/ Issuer(DefaultUser, ApiRequests, FreshIds(MaxIssues))
  \/ BatchRunner(BatchCases, MaxBatch)

SpecBatch == Init /\ [][NextBatch]_vars

\* the batches with the same events in another order
Permuted(batch) ==
  { [j \in 1..Len(batch) |-> batch[p[j]]] :
      p \in { q \in [1..Len(batch) -> 1..Len(batch)] :
                \A a, b \in 1..Len(batch) : q[a] = q[b] => a = b } }

StatusesOf(t) == [k \in DOMAIN t |-> StatusOf(t[k])]

Fails(r) == r.outcome # "returned"

Decodable(batch) ==
  \A j \in 1..Len(batch) : decodeURIComponent(ReplacePlus(batch[j].key)) # URIError

\* the handler run on the batch in any other order ends with the same status
\* of every record and the same success or failure
SameEndInEveryOrder(batch) ==
  \A other \in Permuted(batch) :
    \A end \in RunBatch(table, other, updateLog, Now(clock)) :
      /\ StatusesOf(end.table) = StatusesOf(table')
      /\ Fails(end.r) <=> Fails(inv'[1])

\* C32: the order of the events of a batch carries no meaning: the handler
\* run on any permutation of the batch, from the same table, ends with the
\* same status of every record and with the same success or failure of the
\* invocation
C32_BatchOrderIrrelevant ==
  [][ \A batch \in Batches(BatchCases, MaxBatch) :
        HandlerRun(1, batch) => SameEndInEveryOrder(batch) ]_vars

\* the same for the batches whose keys can all be URL-decoded
C32_DecodableBatchOrderIrrelevant ==
  [][ \A batch \in Batches(BatchCases, MaxBatch) :
        (HandlerRun(1, batch) /\ Decodable(batch)) => SameEndInEveryOrder(batch) ]_vars

\* a batch of two different events, one of them of a signed upload, has been
\* run and has moved a record to UPLOADED
C32_DecodableWitness ==
  /\ inv[1].pc = "done"
  /\ Len(inv[1].batch) = 2
  /\ inv[1].batch[1] \in { PutEvent(S3EncodeKey(u.key)) : u \in signed }
  /\ Decodable(inv[1].batch)
  /\ inv[1].batch[2] = NoRecordEvent
  /\ inv[1].outcome = "Error"
  /\ Len(updateLog) = 1


(***************************************************************************)
(* Records left behind by a failed generateUploadUrl, and the sweep         *)
(* (SpecOrphan): calls of generateUploadUrl whose createFile or            *)
(* getSignedUrl can throw, and deleteExpiredPendingFiles calls on the      *)
(* table they leave.                                                       *)
(***************************************************************************)
NextOrphan ==
  \/ /\ sw.pc = "idle"
     /\ \/ Tick
        \/ Issuer(DefaultUser, ApiRequests, FreshIds(MaxIssues))
        \/ IssuerFaults(DefaultUser, ApiRequests, FreshIds(MaxIssues))
  \/ Sweeper

SpecOrphan == Init /\ [][NextOrphan]_vars

\* the records whose createFile succeeded and whose signed URL was never
\* produced, no call being under way for them
Orphans(t) ==
  { k \in DOMAIN t :
      /\ Has(t[k], "fileId")
      /\ t[k].fileId \in createdIds
      /\ \A u \in signed : u.fileId # t[k].fileId
      /\ iss.pc = "getSignedUrl" => iss.file.fileId # t[k].fileId }

\* C33: when the generation of the signed URL fails after createFile has
\* succeeded, the caller gets success = false and the record stays in the
\* table as it was written, in PENDING_UPLOAD; a later
\* deleteExpiredPendingFiles call with an expiredBefore later than the
\* expiresAt of such a record has deleted it when it returns
C33_OrphanStaysUntilSwept ==
  [][ /\ \A thrown \in ThrownValues :
           GenerateUploadUrlSignFails(thrown)
           => LET k == RecordOf(iss.file.userId, iss.file.fileId)
              IN /\ ~resp'.success
                 /\ k \in DOMAIN table'
                 /\ table' = table
                 /\ table'[k].fileId = iss.file.fileId
                 /\ table'[k].expiresAt = iss.file.expiresAt
                 /\ table'[k].status = "PENDING_UPLOAD"
                 /\ k \in Orphans(table)'
      /\ SweepReturn
         => \A k \in Orphans(sw.before) :
              sw.before[k].expiresAt < sw.expiredBefore => k \notin DOMAIN table' ]_vars

\* getSignedUrl has failed for a record written at time 0, and a sweep with
\* expiredBefore = 301000 has returned after deleting that record, leaving
\* the orphan of a later call in place
C33_Witness ==
  /\ sw.pc = "returned"
  /\ sw.expiredBefore = 301000
  /\ sw.deletedCount = 1
  /\ \E k \in Orphans(sw.before) :
       /\ sw.before[k].expiresAt = 300000
       /\ k \notin DOMAIN table
  /\ \E k \in Orphans(table) : table[k].expiresAt = 450500
  /\ Has(resp, "success") /\ ~resp.success


(***************************************************************************)
(* The size ceiling of the records generateUploadUrl writes (SpecCeiling): *)
(* requests with every combination of content type, file name and size.    *)
(***************************************************************************)
NextCeiling ==
  \/ Tick
  \/ Issuer(DefaultUser, MixedRequests, FreshIds(MaxIssues))

SpecCeiling == Init /\ [][NextCeiling]_vars

ImageMimeTypes ==
  { << "i", "m", "a", "g", "e", "/", "j", "p", "e", "g" >>, << "i", "m", "a", "g", "e", "/", "j", "p", "g" >>, << "i", "m", "a", "g", "e", "/", "p", "n", "g" >>, << "i", "m", "a", "g", "e", "/", "g", "i", "f" >>, << "i", "m", "a", "g", "e", "/", "w", "e", "b", "p" >> }

\* C34: every record written by generateUploadUrl with an image mimeType
\* has sizeBytes <= 5,242,880, and every one with mimeType application/pdf
\* has sizeBytes <= 10,485,760, whatever the file name of the request
C34_SizeWithinCeilingOfMimeType ==
  \A k \in DOMAIN table :
    /\ table[k].mimeType \in ImageMimeTypes => table[k].sizeBytes <= 5242880
    /\ table[k].mimeType = << "a", "p", "p", "l", "i", "c", "a", "t", "i", "o", "n", "/", "p", "d", "f" >> => table[k].sizeBytes <= 10485760

\* the ceiling applied is the one of the type detect returns, which is pdf
\* for a file name ending in .pdf whatever the content type
C34_SizeWithinCeilingOfDetectedType ==
  \A k \in DOMAIN table :
    /\ table[k].sizeBytes <= 10485760
    /\ ( table[k].mimeType \in ImageMimeTypes
         /\ ~EndsWith(ToLowerCase(table[k].fileName), << ".", "p", "d", "f" >>) )
       => table[k].sizeBytes <= 5242880

\* an image record within the image ceiling and a pdf record at the pdf
\* ceiling have been written
C34_WitnessDetectedType ==
  /\ \E k \in DOMAIN table :
       /\ table[k].mimeType = << "i", "m", "a", "g", "e", "/", "p", "n", "g" >>
       /\ table[k].fileName = << "p", "i", "c", ".", "p", "n", "g" >>
       /\ table[k].sizeBytes = 5242880
  /\ \E k \in DOMAIN table :
       /\ table[k].mimeType = << "a", "p", "p", "l", "i", "c", "a", "t", "i", "o", "n", "/", "p", "d", "f" >>
       /\ table[k].fileName = << "p", "i", "c", ".", "p", "n", "g" >>
       /\ table[k].sizeBytes = 10485760


(***************************************************************************)
(* createFile on a key that is taken (SpecOverwrite): records issued and   *)
(* moved to UPLOADED by the handler, and one direct call of createFile     *)
(* for the file f1 of u1.                                                  *)
(***************************************************************************)
\* createFile(file) called directly; createdAt and updatedAt default to the
\* time taken when the call was made
RepositoryCreateFile(file) ==
  /\ pure = NoEvaluation
  /\ \E c \in 0..clock :
        /\ table' = createFile(table, file, Now(c))
        /\ pure' = [op |-> "createFile", file |-> file, now |-> Now(c)]
  /\ UNCHANGED << api, clock, issVars, invVars, sw, li >>

\* besides the events of signed uploads, one for a file without record
UnknownFileEvents == { NoRecordEvent }

NextOverwrite ==
  \/ Tick
  \/ Issuer(DefaultUser, ApiRequests, FreshIds(MaxIssues))
  \/ Reconciler(OneInvocation, UnknownFileEvents, 1)
  \/ \E file \in PureFiles : RepositoryCreateFile(file)

SpecOverwrite == Init /\ [][NextOverwrite]_vars

\* C35: createFile(file) does not fail on a key that is taken: after the
\* call the item under (userId, fileId) holds the fields of file and nothing
\* of the item that was there (no uploadedAt, expiresAt or ttl that file does
\* not give), there is exactly one item for (userId, fileId), and every
\* other item is as it was
C35_CreateFileReplaces ==
  [][ \A file \in PureFiles :
        RepositoryCreateFile(file)
        => LET k == RecordOf(file.userId, file.fileId)
               new == table'[k]
           IN /\ k \in DOMAIN table'
              /\ \A a \in DOMAIN file : Has(new, a) /\ new[a] = file[a]
              /\ DOMAIN new \subseteq
                   { "PK", "SK", "createdAt", "updatedAt", "ttl" } \cup DOMAIN file
              /\ Has(new, "ttl") => (Has(file, "expiresAt") /\ file.status = "PENDING_UPLOAD")
              /\ Has(new, "createdAt") /\ Has(new, "updatedAt")
              /\ Cardinality({ k2 \in DOMAIN table' :
                                 /\ table'[k2].fileId = file.fileId
                                 /\ table'[k2].userId = file.userId }) = 1
              /\ DOMAIN table' = DOMAIN table \cup { k }
              /\ \A k2 \in DOMAIN table \ { k } : table'[k2] = table[k2] ]_vars

\* the record of f1 was moved to UPLOADED by the handler, and createFile has
\* put it back to PENDING_UPLOAD, without uploadedAt
C35_Witness ==
  /\ pure.op = "createFile"
  /\ pure.file.status = "PENDING_UPLOAD"
  /\ ~Has(pure.file, "uploadedAt")
  /\ Len(updateLog) = 1
  /\ updateLog[1].SK = SKOf(pure.file.fileId)
  /\ updateLog[1].sets.status = "UPLOADED"
  /\ LET k == RecordOf(pure.file.userId, pure.file.fileId)
     IN /\ k \in DOMAIN table
        /\ table[k].status = "PENDING_UPLOAD"
        /\ ~Has(table[k], "uploadedAt")


(***************************************************************************)
(* Writes that cross between the handler and the sweep (SpecLifecycle).    *)
(***************************************************************************)
CreationFields ==
  { "fileId", "userId", "fileName", "mimeType", "sizeBytes", "s3Bucket", "s3Key",
    "createdAt" }

\* C36: in every reachable state every item of the table carries all its
\* creation-time fields; the updateFile of the handler, applied after the
\* sweep has deleted the record the handler read, does not bring an item
\* into existence that holds only status, uploadedAt and updatedAt
C36_RecordsAreComplete ==
  \A k \in DOMAIN table : CreationFields \subseteq DOMAIN table[k]

\* the items the issuer writes, and those the handler updates while they
\* exist, are complete: an item is incomplete only when an updateFile of
\* the handler has written to a key without item
C36_IncompleteOnlyByUpdate ==
  [][ \A k \in DOMAIN table' :
        ( ~(CreationFields \subseteq DOMAIN table'[k])
          /\ (k \notin DOMAIN table \/ table'[k] # table[k]) )
        => /\ updateLog' # updateLog
           /\ k \in DOMAIN table => ~(CreationFields \subseteq DOMAIN table[k])
           /\ DOMAIN table'[k] = { "PK", "SK", "status", "uploadedAt", "updatedAt" } ]_vars

\* C37: the sweep never deletes a record that is UPLOADED at the moment of
\* the delete: a record selected as expired PENDING_UPLOAD and moved to
\* UPLOADED before its DeleteCommand is applied is kept
C37_SweepKeepsUploaded ==
  [][ SweepDelete
      => \A k \in DOMAIN table :
           (Has(table[k], "status") /\ table[k].status = "UPLOADED")
           => (k \in DOMAIN table' /\ table'[k] = table[k]) ]_vars

\* what the sweep does keep: a record that was not PENDING_UPLOAD and
\* expired when the sweep made its query is not deleted by it
C37_SweepDeletesOnlySelected ==
  [][ SweepDelete
      => \A k \in DOMAIN table \ DOMAIN table' :
           /\ k \in DOMAIN sw.before
           /\ sw.before[k].status = "PENDING_UPLOAD"
           /\ ~Has(sw.before[k], "expiresAt")
              \/ sw.before[k].expiresAt < sw.expiredBefore ]_vars


(***************************************************************************)
(* The event that moves a record (SpecEvents).                             *)
(***************************************************************************)
\* the decoded key of the event the invocation is at
EventKey(r) == decodeURIComponent(ReplacePlus(r.batch[r.idx].key))

\* the handler's updateFile moves the record under k from PENDING_UPLOAD to
\* UPLOADED in this step
MovedByHandler(k) ==
  /\ updateLog' # updateLog
  /\ k \in DOMAIN table /\ k \in DOMAIN table'
  /\ Has(table[k], "status") /\ table[k].status = "PENDING_UPLOAD"
  /\ table'[k].status = "UPLOADED"

\* C38: a record is moved to UPLOADED only by an event whose object key is
\* the s3Key of the record; an ObjectCreated:Put event for another key that
\* ends in the record's fileId and an extension does not change the record
C38_OnlyEventOfOwnKey ==
  [][ \A k \in DOMAIN table :
        MovedByHandler(k)
        => /\ Has(table[k], "s3Key")
           /\ EventKey(inv[updateLog'[Len(updateLog')].by]) = table[k].s3Key ]_vars

\* what the handler does tie the event to: the record moved has the fileId
\* of the last segment of the event's key
C38_OnlyEventOfSameFileId ==
  [][ \A k \in DOMAIN table :
        MovedByHandler(k)
        => /\ Has(table[k], "fileId")
           /\ extractFileIdFromKey(EventKey(inv[updateLog'[Len(updateLog')].by]))
                = table[k].fileId ]_vars

============================================================================
